---- MODULE Spec2Model ----
(***************************************************************************)
(* Control-plane service: credential / one-time-token lifecycle and the    *)
(* event-driven onboarding flow.                                           *)
(*                                                                         *)
(* The relational store (users, roles, user_roles, credentials, tokens),   *)
(* the Kafka topics with their consumer groups, the notification topic and *)
(* the clock are the state.  Every RPC and every consumer handler is one   *)
(* action; a handler's early returns are the branches of its operator, and *)
(* the parameter "fail" names the collaborator calls (store, broker,       *)
(* hasher, random source) that return an error in that execution.          *)
(***************************************************************************)
EXTENDS Integers, Sequences, FiniteSets, TLC

VARIABLES users, credentials, tokens, roles, userRoles,
          lifecycle, onboarding, pos, committed,
          nextUserId, nextRoleId, now, last, redeemed, calls

vars == <<users, credentials, tokens, roles, userRoles,
          lifecycle, onboarding, pos, committed,
          nextUserId, nextRoleId, now, last, redeemed, calls>>

----------------------------------------------------------------------------
(* Bounds of the model *)

MaxUsers == 2
MaxRoles == 2
MaxRaw == 2
MaxLog == 2
MaxOnb == 1
MaxTime == 2

(* Program constants *)

\* 24 * time.Hour, in clock ticks of the model
TokenTTL == 1

----------------------------------------------------------------------------
(* Input domains *)

Tenants == {"t1"}
TenantInputs == Tenants \cup {"not-a-uuid"}
Emails == {"a@x.com", "b@x.com"}
SeedEmail == "s@x.com"
Names == {"A"}
Passwords == {"Secret123", "Other456"}
Salts == {"s1"}
RawTokens == 1..MaxRaw

NoUser == 0

\* uuid.Parse: the identifiers the model treats as well-formed UUIDs
\* a second tenant, known to the callers of the role operations only
OtherTenant == "t2"
ValidTenantUUID(t) == t \in Tenants \cup {OtherTenant}
ValidUserUUID(u) == u # NoUser

----------------------------------------------------------------------------
(* Token codec: base64.URLEncoding and sha256.Sum256 *)

Base64Encode(raw) == <<"b64", raw>>
Malformed == <<"invalid-base64!">>
Plaintexts == {Base64Encode(r) : r \in RawTokens} \cup {Malformed}

\* variant: decoding with another alphabet yields other bytes
Base64DecodeOtherAlphabet(s) ==
    IF Len(s) = 2 /\ s[1] = "b64"
    THEN [ok |-> TRUE, bytes |-> (s[2] % MaxRaw) + 1]
    ELSE [ok |-> FALSE, bytes |-> 0]
Base64Decode(s) ==
    IF Len(s) = 2 /\ s[1] = "b64"
    THEN [ok |-> TRUE, bytes |-> s[2]]
    ELSE [ok |-> FALSE, bytes |-> 0]

Sha256(raw) == <<"sha256", raw>>

----------------------------------------------------------------------------
(* Password hasher: bcrypt with a random salt *)

Hash(password, salt) == [salt |-> salt, digest |-> <<salt, password>>]

Compare(hashedPassword, password) ==
    hashedPassword.digest = <<hashedPassword.salt, password>>

----------------------------------------------------------------------------
(* The store and the broker as one record threaded through a handler.       *)
(* The notification topic is only written by this service: "outbox" holds   *)
(* the notifications the handler has produced so far.                       *)

World == [users |-> users, credentials |-> credentials, tokens |-> tokens,
          roles |-> roles, userRoles |-> userRoles, lifecycle |-> lifecycle,
          outbox |-> {}, nextUserId |-> nextUserId,
          nextRoleId |-> nextRoleId, now |-> now]

Remove(f, k) == [x \in DOMAIN f \ {k} |-> f[x]]

\* INSERT INTO tokens: hash is the primary key, user_id references users
\* variant: no primary key on hash
CreateTokenOkAnyHash(w, hash, uid) == uid \in DOMAIN w.users
CreateTokenOk(w, hash, uid) == hash \notin DOMAIN w.tokens /\ uid \in DOMAIN w.users

\* variant: the new row replaces the rows the user already has
CreateTokenOnePerUser(w, hash, uid, expiry, scope) ==
    [w EXCEPT !.tokens =
        [h \in {x \in DOMAIN w.tokens : w.tokens[x].user_id # uid} |-> w.tokens[h]] @@
        (hash :> [user_id |-> uid, expiry |-> expiry, scope |-> scope])]
CreateToken(w, hash, uid, expiry, scope) ==
    [w EXCEPT !.tokens = w.tokens @@
        (hash :> [user_id |-> uid, expiry |-> expiry, scope |-> scope])]

\* variant: the DELETE affects no row
DeleteTokenNoRow(w, hash) == w
DeleteToken(w, hash) == [w EXCEPT !.tokens = Remove(w.tokens, hash)]

\* INSERT INTO credentials: user_id is the primary key and references users
\* variant: no primary key on user_id
CreateCredentialOkNoKey(w, uid) == uid \in DOMAIN w.users
CreateCredentialOk(w, uid) == uid \notin DOMAIN w.credentials /\ uid \in DOMAIN w.users

CreateCredential(w, uid, passwordHash) ==
    [w EXCEPT !.credentials = w.credentials @@ (uid :> passwordHash)]

\* storedToken.Expiry.Time.Before(time.Now())
\* variant: the comparison is dropped
ExpiredNever(expiry, t) == FALSE
Expired(expiry, t) == expiry < t

\* UPDATE users SET status = $2 WHERE id = $1
\* variant: the UPDATE affects no row
UpdateUserStatusNoRow(w, uid, status) == w
UpdateUserStatus(w, uid, status) ==
    IF uid \in DOMAIN w.users
    THEN [w EXCEPT !.users[uid].status = status]
    ELSE w

\* UPDATE users SET status = 'ACTIVE', full_name = $2 WHERE id = $1
\* variant: the name column is left out of the UPDATE
ActivateInvitedUserKeepName(w, uid, fullName) ==
    IF uid \in DOMAIN w.users
    THEN [w EXCEPT !.users[uid].status = "ACTIVE"]
    ELSE w
ActivateInvitedUser(w, uid, fullName) ==
    IF uid \in DOMAIN w.users
    THEN [w EXCEPT !.users[uid].status = "ACTIVE", !.users[uid].full_name = fullName]
    ELSE w

\* UPDATE users SET last_login_at = NOW() WHERE id = $1; the column is
\* written here and read nowhere, so the user rows do not carry it
UpdateLastLogin(w, uid) == w

\* SELECT * FROM users WHERE email = $1 AND tenant_id = $2
UsersByEmail(w, email, tenant) ==
    {u \in DOMAIN w.users : w.users[u].email = email /\ w.users[u].tenant_id = tenant}

\* Producer.publish on the user.lifecycle topic
\* variant: the record is acknowledged and never written
PublishDropped(w, event) == w
Publish(w, event) == [w EXCEPT !.lifecycle = Append(w.lifecycle, event)]

\* NotificationProducer.SendEmail / Producer.PublishEmailNotification
SendEmail(w, to, subject, token) ==
    [w EXCEPT !.outbox = w.outbox \cup {[to |-> to, subject |-> subject, token |-> token]}]

----------------------------------------------------------------------------
(* Results of a handler *)

Result(w, ok, err) ==
    [w |-> w, ok |-> ok, err |-> err, token |-> <<>>, uid |-> NoUser,
     credFetched |-> FALSE, compared |-> FALSE, session |-> <<>>]

Ok(w) == Result(w, TRUE, "")
Fail(w, err) == Result(w, FALSE, err)

----------------------------------------------------------------------------
(* Events on the wire.  "kind" is the Go type that was marshalled; the JSON *)
(* itself carries no discriminator, so the decoders below never read it.    *)

UserCreatedEvent(uid, tenant, email, isInitialAdmin) ==
    [kind |-> "UserCreated", user_id |-> uid, tenant_id |-> tenant,
     email |-> email, is_initial_admin |-> isInitialAdmin]

UserInvitedEvent(uid, tenant, email, fullName) ==
    [kind |-> "UserInvited", user_id |-> uid, tenant_id |-> tenant,
     email |-> email, full_name |-> fullName]

UserStatusChangedEvent(uid, tenant, oldStatus, newStatus) ==
    [kind |-> "UserStatusChanged", user_id |-> uid, tenant_id |-> tenant,
     old_status |-> oldStatus, new_status |-> newStatus]

PasswordChangedEvent(uid, tenant, method) ==
    [kind |-> "PasswordChanged", user_id |-> uid, tenant_id |-> tenant,
     method |-> method]

UserLoginEvent(uid, tenant) ==
    [kind |-> "UserLogin", user_id |-> uid, tenant_id |-> tenant]

CreateInitialAdminEvent(tenant, email, fullName) ==
    [kind |-> "CreateInitialAdmin", tenant_id |-> tenant,
     admin_email |-> email, admin_full_name |-> fullName]

\* json.Unmarshal: a field absent from the payload keeps its zero value
Field(ev, name, zero) == IF name \in DOMAIN ev THEN ev[name] ELSE zero

\* json.Unmarshal(value, &UserCreatedEvent{})
DecodeUserCreated(ev) ==
    [user_id |-> Field(ev, "user_id", NoUser),
     tenant_id |-> Field(ev, "tenant_id", ""),
     email |-> Field(ev, "email", ""),
     is_initial_admin |-> Field(ev, "is_initial_admin", FALSE)]

\* json.Unmarshal(value, &UserInvitedEvent{})
DecodeUserInvited(ev) ==
    [user_id |-> Field(ev, "user_id", NoUser),
     tenant_id |-> Field(ev, "tenant_id", ""),
     email |-> Field(ev, "email", ""),
     full_name |-> Field(ev, "full_name", "")]

----------------------------------------------------------------------------
(* Session issuer: a signed claim set *)

\* the configured lifetimes of the two kinds of session token, in ticks of
\* the clock
AccessTokenDuration == 1
RefreshTokenDuration == 2

\* the HMAC key of the service, and a key the service does not hold
SecretKey == "k1"
Keys == {SecretKey, "k2"}

\* generateToken at instant t: the claims, signed with the key
GenerateToken(uid, tenant, email, duration, t) ==
    <<[user_id |-> uid, tenant_id |-> tenant, email |-> email,
       exp |-> t + duration, iat |-> t, key |-> SecretKey]>>

GenerateAccessToken(uid, tenant, email, t) ==
    GenerateToken(uid, tenant, email, AccessTokenDuration, t)
GenerateRefreshToken(uid, tenant, email, t) ==
    GenerateToken(uid, tenant, email, RefreshTokenDuration, t)

----------------------------------------------------------------------------
(* AuthnService *)

\* GeneratePasswordSetupToken: raw is the outcome of rand.Read
\* variant: a failed notification retracts the stored token
GeneratePasswordSetupTokenRetract(w, userID, tenantID, email, raw, fail) ==
    IF ~ValidUserUUID(userID) THEN Fail(w, "invalid user ID")
    ELSE IF "rand" \in fail THEN Fail(w, "failed to generate random token")
    ELSE IF "CreateToken" \in fail \/ ~CreateTokenOk(w, Sha256(raw), userID)
    THEN Fail(w, "failed to store token")
    ELSE IF "SendEmail" \in fail THEN Fail(w, "failed to send email")
    ELSE [Ok(SendEmail(CreateToken(w, Sha256(raw), userID, w.now + TokenTTL,
                                   "PASSWORD_RESET"),
                       email, "Set Your Password", Base64Encode(raw)))
            EXCEPT !.token = Base64Encode(raw)]
GeneratePasswordSetupToken(w, userID, tenantID, email, raw, fail) ==
    IF ~ValidUserUUID(userID) THEN Fail(w, "invalid user ID")
    ELSE IF "rand" \in fail THEN Fail(w, "failed to generate random token")
    ELSE
      LET token == Base64Encode(raw)
          hash == Sha256(raw)
          expiry == w.now + TokenTTL
      IN
      IF "CreateToken" \in fail \/ ~CreateTokenOk(w, hash, userID)
      THEN Fail(w, "failed to store token")
      ELSE
        LET w1 == CreateToken(w, hash, userID, expiry, "PASSWORD_RESET") IN
        IF "SendEmail" \in fail THEN Fail(w1, "failed to send email")
        ELSE [Ok(SendEmail(w1, email, "Set Your Password", token)) EXCEPT !.token = token]

\* variant: an expired token is deleted when it is turned down
SetInitialPasswordPurgeExpired(w, setupToken, newPassword, salt, fail) ==
    LET dec == Base64Decode(setupToken) IN
    IF ~dec.ok THEN Fail(w, "invalid token format")
    ELSE
      LET tokenHash == Sha256(dec.bytes) IN
      IF "GetToken" \in fail
      THEN Fail(w, "invalid or expired token: failed to get token")
      ELSE IF tokenHash \notin DOMAIN w.tokens
      THEN Fail(w, "invalid or expired token: token not found")
      ELSE
        LET storedToken == w.tokens[tokenHash]
            userID == storedToken.user_id
        IN
        IF Expired(storedToken.expiry, w.now)
        THEN Fail(DeleteToken(w, tokenHash), "token has expired")
        ELSE IF "Hash" \in fail THEN Fail(w, "failed to hash password")
        ELSE IF "CreateCredential" \in fail \/ ~CreateCredentialOk(w, userID)
        THEN Fail(w, "failed to create credential")
        ELSE
          LET w1 == CreateCredential(w, userID, Hash(newPassword, salt)) IN
          IF "GetUserByID" \in fail \/ userID \notin DOMAIN w1.users
          THEN Fail(w1, "failed to get user")
          ELSE IF "UpdateUserStatus" \in fail
          THEN Fail(w1, "failed to update user status")
          ELSE
            LET tenantID == w1.users[userID].tenant_id
                w2 == UpdateUserStatus(w1, userID, "ACTIVE")
                w3 == IF "PublishUserStatusChanged" \in fail THEN w2
                      ELSE Publish(w2, UserStatusChangedEvent(userID, tenantID,
                                                              "PENDING_SETUP", "ACTIVE"))
                w4 == IF "PublishPasswordChanged" \in fail THEN w3
                      ELSE Publish(w3, PasswordChangedEvent(userID, tenantID,
                                                            "initial_setup"))
            IN
            IF "DeleteToken" \in fail THEN Fail(w4, "failed to delete token")
            ELSE [Ok(DeleteToken(w4, tokenHash)) EXCEPT !.uid = userID]
SetInitialPassword(w, setupToken, newPassword, salt, fail) ==
    LET dec == Base64Decode(setupToken) IN
    IF ~dec.ok THEN Fail(w, "invalid token format")
    ELSE
      LET tokenHash == Sha256(dec.bytes) IN
      IF "GetToken" \in fail
      THEN Fail(w, "invalid or expired token: failed to get token")
      ELSE IF tokenHash \notin DOMAIN w.tokens
      THEN Fail(w, "invalid or expired token: token not found")
      ELSE
        LET storedToken == w.tokens[tokenHash]
            userID == storedToken.user_id
        IN
        IF Expired(storedToken.expiry, w.now) THEN Fail(w, "token has expired")
        ELSE IF "Hash" \in fail THEN Fail(w, "failed to hash password")
        ELSE IF "CreateCredential" \in fail \/ ~CreateCredentialOk(w, userID)
        THEN Fail(w, "failed to create credential")
        ELSE
          LET w1 == CreateCredential(w, userID, Hash(newPassword, salt)) IN
          IF "GetUserByID" \in fail \/ userID \notin DOMAIN w1.users
          THEN Fail(w1, "failed to get user")
          ELSE IF "UpdateUserStatus" \in fail
          THEN Fail(w1, "failed to update user status")
          ELSE
            LET tenantID == w1.users[userID].tenant_id
                w2 == UpdateUserStatus(w1, userID, "ACTIVE")
                w3 == IF "PublishUserStatusChanged" \in fail THEN w2
                      ELSE Publish(w2, UserStatusChangedEvent(userID, tenantID,
                                                              "PENDING_SETUP", "ACTIVE"))
                w4 == IF "PublishPasswordChanged" \in fail THEN w3
                      ELSE Publish(w3, PasswordChangedEvent(userID, tenantID,
                                                            "initial_setup"))
            IN
            IF "DeleteToken" \in fail THEN Fail(w4, "failed to delete token")
            ELSE [Ok(DeleteToken(w4, tokenHash)) EXCEPT !.uid = userID]

ResetPassword(w, resetToken, newPassword, salt, fail) ==
    SetInitialPassword(w, resetToken, newPassword, salt, fail)

RegisterInvitedUser(w, invitationToken, fullName, password, salt, fail) ==
    LET dec == Base64Decode(invitationToken) IN
    IF ~dec.ok THEN Fail(w, "invalid token format")
    ELSE
      LET tokenHash == Sha256(dec.bytes) IN
      IF "GetToken" \in fail
      THEN Fail(w, "invalid or expired invitation: failed to get token")
      ELSE IF tokenHash \notin DOMAIN w.tokens
      THEN Fail(w, "invalid or expired invitation: token not found")
      ELSE
        LET storedToken == w.tokens[tokenHash]
            userID == storedToken.user_id
        IN
        IF Expired(storedToken.expiry, w.now) THEN Fail(w, "invitation has expired")
        ELSE IF "Hash" \in fail THEN Fail(w, "failed to hash password")
        ELSE IF "CreateCredential" \in fail \/ ~CreateCredentialOk(w, userID)
        THEN Fail(w, "failed to create credential")
        ELSE
          LET w1 == CreateCredential(w, userID, Hash(password, salt)) IN
          IF "ActivateInvitedUser" \in fail THEN Fail(w1, "failed to activate user")
          ELSE
            LET w2 == ActivateInvitedUser(w1, userID, fullName) IN
            IF "GetUserByID" \in fail \/ userID \notin DOMAIN w2.users
            THEN Fail(w2, "failed to get user")
            ELSE
              LET user == w2.users[userID]
                  accessToken == GenerateAccessToken(userID, user.tenant_id, user.email, w.now)
                  refreshToken == GenerateRefreshToken(userID, user.tenant_id, user.email, w.now)
              IN
              IF "GenerateAccessToken" \in fail
              THEN Fail(w2, "failed to generate access token")
              ELSE IF "GenerateRefreshToken" \in fail
              THEN Fail(w2, "failed to generate refresh token")
              ELSE
                LET w3 == IF "UpdateLastLogin" \in fail THEN w2
                          ELSE UpdateLastLogin(w2, userID)
                IN
                IF "DeleteToken" \in fail THEN Fail(w3, "failed to delete token")
                ELSE [Ok(DeleteToken(w3, tokenHash)) EXCEPT
                         !.uid = userID,
                         !.session = accessToken \o refreshToken]

\* user.Status != UserStatusActive
\* variant: the status is not looked at
IsActiveAnyStatus(user) == TRUE
IsActive(user) == user.status = "ACTIVE"

Login(w, email, password, tenantIdentifier, fail) ==
    IF ~ValidTenantUUID(tenantIdentifier) THEN Fail(w, "invalid tenant ID")
    ELSE
      LET found == UsersByEmail(w, email, tenantIdentifier) IN
      IF "GetUserByEmail" \in fail
      THEN Fail(w, "invalid credentials: failed to get user by email")
      ELSE IF found = {} THEN Fail(w, "invalid credentials: user not found")
      ELSE
        LET userID == CHOOSE u \in found : TRUE
            user == w.users[userID]
        IN
        IF ~IsActive(user) THEN Fail(w, "user account is not active")
        ELSE IF "GetCredentialByUserID" \in fail
        THEN [Fail(w, "invalid credentials: failed to get credential") EXCEPT
                 !.credFetched = TRUE]
        ELSE IF userID \notin DOMAIN w.credentials
        THEN [Fail(w, "invalid credentials: credential not found") EXCEPT
                 !.credFetched = TRUE]
        ELSE
          LET credential == w.credentials[userID] IN
          IF ~Compare(credential, password)
          THEN [Fail(w, "invalid credentials: password mismatch") EXCEPT
                   !.credFetched = TRUE, !.compared = TRUE]
          ELSE IF "GenerateAccessToken" \in fail
          THEN [Fail(w, "failed to generate access token") EXCEPT
                   !.credFetched = TRUE, !.compared = TRUE]
          ELSE IF "GenerateRefreshToken" \in fail
          THEN [Fail(w, "failed to generate refresh token") EXCEPT
                   !.credFetched = TRUE, !.compared = TRUE]
          ELSE
            LET w1 == IF "UpdateLastLogin" \in fail THEN w
                      ELSE UpdateLastLogin(w, userID)
                w2 == IF "PublishUserLogin" \in fail THEN w1
                      ELSE Publish(w1, UserLoginEvent(userID, tenantIdentifier))
            IN
            [Ok(w2) EXCEPT
                !.uid = userID, !.credFetched = TRUE, !.compared = TRUE,
                !.session = GenerateAccessToken(userID, tenantIdentifier, email, w.now)
                            \o GenerateRefreshToken(userID, tenantIdentifier, email, w.now)]

ForgotPassword(w, email, tenantIdentifier, raw, fail) ==
    IF ~ValidTenantUUID(tenantIdentifier) THEN Fail(w, "invalid tenant ID")
    ELSE
      LET found == UsersByEmail(w, email, tenantIdentifier) IN
      IF "GetUserByEmail" \in fail \/ found = {} THEN Ok(w)
      ELSE
        LET userID == CHOOSE u \in found : TRUE
            g == GeneratePasswordSetupToken(w, userID, tenantIdentifier, email, raw, fail)
        IN
        IF ~g.ok THEN Fail(g.w, "failed to generate reset token")
        ELSE [Ok(g.w) EXCEPT !.uid = userID]

----------------------------------------------------------------------------
(* UserService *)

NewUser(tenant, email, fullName, status) ==
    [tenant_id |-> tenant, email |-> email, full_name |-> fullName,
     status |-> status, email_verified |-> FALSE]

\* INSERT INTO users: UNIQUE(email, tenant_id)
InsertUserOk(w, email, tenant) == UsersByEmail(w, email, tenant) = {}

InsertUser(w, tenant, email, fullName, status) ==
    [w EXCEPT !.users = w.users @@
                 (w.nextUserId :> NewUser(tenant, email, fullName, status)),
              !.nextUserId = w.nextUserId + 1]

TenantAdminPermissions ==
    {"users:create", "users:read", "users:update", "users:delete",
     "roles:create", "roles:read", "roles:update", "roles:delete",
     "departments:create", "departments:read", "departments:update",
     "departments:delete",
     "designations:create", "designations:read", "designations:update",
     "designations:delete"}

\* INSERT INTO roles: UNIQUE(tenant_id, name)
CreateRoleOk(w, tenant, name) ==
    ~\E r \in DOMAIN w.roles : w.roles[r].tenant_id = tenant /\ w.roles[r].name = name

CreateRole(w, tenant, name, permissions) ==
    [w EXCEPT !.roles = w.roles @@
                 (w.nextRoleId :> [tenant_id |-> tenant, name |-> name,
                                   permissions |-> permissions]),
              !.nextRoleId = w.nextRoleId + 1]

\* INSERT INTO user_roles ... ON CONFLICT (user_id, role_id) DO NOTHING;
\* user_id and role_id are foreign keys
AssignRoleToUserOk(w, uid, rid) == uid \in DOMAIN w.users /\ rid \in DOMAIN w.roles

\* variant: the INSERT affects no row
AssignRoleToUserNoRow(w, uid, tenant, rid) == w
AssignRoleToUser(w, uid, tenant, rid) ==
    IF \E ur \in w.userRoles : ur.user_id = uid /\ ur.role_id = rid
    THEN w
    ELSE [w EXCEPT !.userRoles = w.userRoles \cup
                      {[user_id |-> uid, tenant_id |-> tenant, role_id |-> rid]}]

CreateInitialAdmin(w, tenantID, email, fullName, fail) ==
    IF ~ValidTenantUUID(tenantID) THEN Fail(w, "invalid tenant ID")
    ELSE IF "CreateInitialAdmin" \in fail \/ ~InsertUserOk(w, email, tenantID)
    THEN Fail(w, "failed to create admin user")
    ELSE
      LET userID == w.nextUserId
          w1 == InsertUser(w, tenantID, email, fullName, "PENDING_SETUP")
      IN
      IF "CreateRole" \in fail \/ ~CreateRoleOk(w1, tenantID, "Tenant Admin")
      THEN Fail(w1, "failed to create admin role")
      ELSE
        LET roleID == w1.nextRoleId
            w2 == CreateRole(w1, tenantID, "Tenant Admin", TenantAdminPermissions)
        IN
        IF "AssignRoleToUser" \in fail \/ ~AssignRoleToUserOk(w2, userID, roleID)
        THEN Fail(w2, "failed to assign admin role")
        ELSE
          LET w3 == AssignRoleToUser(w2, userID, tenantID, roleID) IN
          IF "PublishUserCreated" \in fail
          THEN Fail(w3, "failed to publish user created event")
          ELSE [Ok(Publish(w3, UserCreatedEvent(userID, tenantID, email, TRUE)))
                   EXCEPT !.uid = userID]

\* UserHandler.CreateUser and UserService.CreateUser
CreateUser(w, tenantID, email, fullName, fail) ==
    IF ~ValidTenantUUID(tenantID) THEN Fail(w, "invalid UUID")
    ELSE IF "CreateUser" \in fail \/ ~InsertUserOk(w, email, tenantID)
    THEN Fail(w, "failed to create user")
    ELSE
      LET userID == w.nextUserId
          w1 == InsertUser(w, tenantID, email, fullName, "ACTIVE")
      IN
      IF "PublishUserCreated" \in fail
      THEN Fail(w1, "failed to publish user created event")
      ELSE [Ok(Publish(w1, UserCreatedEvent(userID, tenantID, email, FALSE)))
               EXCEPT !.uid = userID]

NoRole == 0
ValidRoleUUID(r) == r # NoRole

\* the role-assignment loop of InviteUser over roleIDs[i..]
RECURSIVE AssignRoles(_, _, _, _, _, _)
AssignRoles(w, uid, tenant, roleIDs, i, fail) ==
    IF i > Len(roleIDs) THEN Ok(w)
    ELSE IF ~ValidRoleUUID(roleIDs[i]) THEN Fail(w, "invalid role ID")
    ELSE IF "AssignRoleToUser" \in fail \/ ~AssignRoleToUserOk(w, uid, roleIDs[i])
    THEN Fail(w, "failed to assign role")
    ELSE AssignRoles(AssignRoleToUser(w, uid, tenant, roleIDs[i]),
                     uid, tenant, roleIDs, i + 1, fail)

\* UserHandler.InviteUser and UserService.InviteUser
InviteUser(w, tenantID, email, fullName, roleIDs, fail) ==
    IF ~ValidTenantUUID(tenantID) THEN Fail(w, "invalid UUID")
    ELSE IF "CreateUser" \in fail \/ ~InsertUserOk(w, email, tenantID)
    THEN Fail(w, "failed to create invited user")
    ELSE
      LET userID == w.nextUserId
          w1 == InsertUser(w, tenantID, email, fullName, "PENDING_INVITE")
          a == AssignRoles(w1, userID, tenantID, roleIDs, 1, fail)
      IN
      IF ~a.ok THEN a
      ELSE IF "PublishUserInvited" \in fail
      THEN Fail(a.w, "failed to publish user invited event")
      ELSE [Ok(Publish(a.w, UserInvitedEvent(userID, tenantID, email, fullName)))
               EXCEPT !.uid = userID]

----------------------------------------------------------------------------
(* Consumer handlers registered in main *)

tenantOnboardingHandler(w, event, raw, fail) ==
    LET r == CreateInitialAdmin(w, event.tenant_id, event.admin_email,
                                event.admin_full_name, fail)
    IN IF ~r.ok THEN Fail(r.w, "failed to create initial admin") ELSE r

userLifecycleHandler(w, value, raw, fail) ==
    LET event == DecodeUserCreated(value) IN
    IF ~event.is_initial_admin THEN Ok(w)
    ELSE
      LET g == GeneratePasswordSetupToken(w, event.user_id, event.tenant_id,
                                          event.email, raw, fail)
      IN IF ~g.ok THEN Fail(g.w, "failed to generate password setup token") ELSE g

userInvitedHandler(w, value, raw, fail) ==
    LET event == DecodeUserInvited(value)
        g == GeneratePasswordSetupToken(w, event.user_id, event.tenant_id,
                                        event.email, raw, fail)
    IN
    IF ~g.ok THEN Fail(g.w, "failed to generate invitation token")
    ELSE IF "PublishEmailNotification" \in fail THEN g
    ELSE [g EXCEPT !.w = SendEmail(g.w, event.email, "Invitation to Join", g.token)]

----------------------------------------------------------------------------
(* Inputs of the operations *)

EmailInputs == Emails \cup {SeedEmail}
RoleIDInputs == {<<>>, <<1>>, <<NoRole>>}

\* the collaborator calls that return an error in one execution of a handler
FailSets(points) == {{}} \cup {{p} : p \in points}

GenerateFailPoints == {"rand", "CreateToken", "SendEmail"}
RedeemFailPoints ==
    {"GetToken", "Hash", "CreateCredential", "GetUserByID", "UpdateUserStatus",
     "PublishUserStatusChanged", "PublishPasswordChanged", "DeleteToken"}
RedeemFailSets ==
    FailSets(RedeemFailPoints)
        \cup {{"PublishUserStatusChanged", "PublishPasswordChanged"}}
RegisterFailPoints ==
    {"GetToken", "Hash", "CreateCredential", "ActivateInvitedUser", "GetUserByID",
     "GenerateAccessToken", "GenerateRefreshToken", "UpdateLastLogin", "DeleteToken"}
LoginFailPoints ==
    {"GetUserByEmail", "GetCredentialByUserID", "GenerateAccessToken",
     "GenerateRefreshToken", "UpdateLastLogin", "PublishUserLogin"}
ForgotFailPoints == {"GetUserByEmail"} \cup GenerateFailPoints
AdminFailPoints ==
    {"CreateInitialAdmin", "CreateRole", "AssignRoleToUser", "PublishUserCreated"}
OnboardingFailPoints == AdminFailPoints \cup {"CommitMessages"}
CreateUserFailPoints == {"CreateUser", "PublishUserCreated"}
InviteFailPoints == {"CreateUser", "AssignRoleToUser", "PublishUserInvited"}
LifecycleFailPoints == GenerateFailPoints \cup {"CommitMessages"}
InvitedFailPoints ==
    GenerateFailPoints \cup {"PublishEmailNotification", "CommitMessages"}

----------------------------------------------------------------------------
(* State *)

OnboardingGroup == "cp-iam-initial-admin-group"
LifecycleGroup == "cp-user-lifecycle-group"
InvitedGroup == "cp-user-invited-group"
Groups == {OnboardingGroup, LifecycleGroup, InvitedGroup}

\* the last operation and whether it reported success to its caller
Outcome(op, r) == [op |-> op, ok |-> r.ok]

\* redemptions in progress: the two callers whose calls may overlap, and for
\* each the statement it executes next and the locals it holds
CallIds == {1, 2}
NoCall ==
    [pc |-> "idle", op |-> "", tokenHash |-> <<>>, userID |-> NoUser,
     passwordHash |-> <<>>, created |-> FALSE, overlapped |-> FALSE,
     ok |-> FALSE, err |-> ""]

\* a step that is not a handler of the service
Idle == Result(0, TRUE, "")

\* the store as the service finds it at start-up: it holds a user that was
\* suspended after having set a password
SeedUser == NewUser("t1", SeedEmail, "S", "SUSPENDED")

Init ==
    /\ users = (1 :> SeedUser)
    /\ credentials = (1 :> Hash("Secret123", "s1"))
    /\ nextUserId = 2
    /\ tokens = <<>>
    /\ roles = <<>>
    /\ userRoles = {}
    /\ lifecycle = <<>>
    /\ onboarding = <<>>
    /\ pos = [g \in Groups |-> 0]
    /\ committed = [g \in Groups |-> 0]
    /\ nextRoleId = 1
    /\ now = 0
    /\ last = Outcome("Init", Idle)
    /\ redeemed = {}
    /\ calls = [c \in CallIds |-> NoCall]

\* log retention: the records below the committed offset of every group of
\* a topic are never fetched again; offsets are kept relative to the oldest
\* record retained
Min(a, b) == IF a < b THEN a ELSE b
Drop(log, k) == SubSeq(log, k + 1, Len(log))
Retain(log, onb, p, c) ==
    LET kl == Min(c[LifecycleGroup], c[InvitedGroup])
        ko == c[OnboardingGroup]
        k(g) == IF g = OnboardingGroup THEN ko ELSE kl
    IN
    /\ lifecycle' = Drop(log, kl)
    /\ onboarding' = Drop(onb, ko)
    /\ pos' = [g \in Groups |-> p[g] - k(g)]
    /\ committed' = [g \in Groups |-> c[g] - k(g)]

\* the effects of a handler on the store, within the bounds; consumed is the
\* set of token rows a successful redemption has used up
Apply(w, consumed) ==
    /\ Len(w.lifecycle) <= MaxLog
    /\ w.nextUserId <= MaxUsers + 1
    /\ w.nextRoleId <= MaxRoles + 1
    /\ users' = w.users
    /\ credentials' = w.credentials
    /\ tokens' = w.tokens
    /\ roles' = w.roles
    /\ userRoles' = w.userRoles
    /\ nextUserId' = w.nextUserId
    /\ nextRoleId' = w.nextRoleId
    /\ redeemed' = (redeemed \ (DOMAIN w.tokens \ DOMAIN tokens)) \cup consumed
    /\ calls' = calls

----------------------------------------------------------------------------
(* Broker: the tenant service publishes, the consumer loops fetch *)

ProvisionTenant ==
    /\ Len(onboarding) < MaxOnb
    /\ nextUserId + Len(onboarding) <= MaxUsers
    /\ \E t \in Tenants, e \in Emails, n \in Names :
         /\ onboarding' = Append(onboarding, CreateInitialAdminEvent(t, e, n))
         /\ last' = Outcome("ProvisionTenant", Idle)
    /\ UNCHANGED <<users, credentials, tokens, roles, userRoles, lifecycle,
                   pos, committed, nextUserId, nextRoleId, now, redeemed, calls>>

\* one iteration of Consumer.Start: fetch, handle, commit on success
ConsumerStep(g, r, fail) ==
    /\ Apply(r.w, {})
    /\ Retain(r.w.lifecycle, onboarding,
              [pos EXCEPT ![g] = @ + 1],
              IF r.ok /\ "CommitMessages" \notin fail
              THEN [committed EXCEPT ![g] = pos[g] + 1]
              ELSE committed)
    /\ last' = Outcome(g, r)
    /\ UNCHANGED now

TenantOnboardingConsumer(fails) ==
    /\ pos[OnboardingGroup] < Len(onboarding)
    /\ \E fail \in fails :
         LET msg == onboarding[pos[OnboardingGroup] + 1] IN
         ConsumerStep(OnboardingGroup, tenantOnboardingHandler(World, msg, 0, fail),
                      fail)

UserLifecycleConsumer(fails) ==
    /\ pos[LifecycleGroup] < Len(lifecycle)
    /\ \E raw \in RawTokens, fail \in fails :
         LET msg == lifecycle[pos[LifecycleGroup] + 1] IN
         ConsumerStep(LifecycleGroup, userLifecycleHandler(World, msg, raw, fail),
                      fail)

UserInvitedConsumer(fails) ==
    /\ pos[InvitedGroup] < Len(lifecycle)
    /\ \E raw \in RawTokens, fail \in fails :
         LET msg == lifecycle[pos[InvitedGroup] + 1] IN
         ConsumerStep(InvitedGroup, userInvitedHandler(World, msg, raw, fail),
                      fail)

\* a consumer of the group starts again from the committed offset
ConsumerRestart ==
    /\ \E g \in Groups :
         /\ pos[g] # committed[g]
         /\ pos' = [pos EXCEPT ![g] = committed[g]]
         /\ last' = Outcome("ConsumerRestart", Idle)
    /\ UNCHANGED <<users, credentials, tokens, roles, userRoles, lifecycle,
                   onboarding, committed, nextUserId, nextRoleId, now, redeemed, calls>>

----------------------------------------------------------------------------
(* RPC surface *)

Rpc(op, r, consumed) ==
    /\ Apply(r.w, consumed)
    /\ lifecycle' = r.w.lifecycle
    /\ last' = Outcome(op, r)
    /\ UNCHANGED <<onboarding, pos, committed, now>>

\* the token row a redemption with this plaintext uses up when it succeeds
Digest(t) == Sha256(Base64Decode(t).bytes)
Consumed(t, r) == IF r.ok THEN {Digest(t)} ELSE {}

SetInitialPasswordRpc(fails) ==
    \E t \in Plaintexts, p \in Passwords, salt \in Salts, fail \in fails :
        LET r == SetInitialPassword(World, t, p, salt, fail) IN
        Rpc("SetInitialPassword", r, Consumed(t, r))

ResetPasswordRpc(fails) ==
    \E t \in Plaintexts, p \in Passwords, salt \in Salts, fail \in fails :
        LET r == ResetPassword(World, t, p, salt, fail) IN
        Rpc("ResetPassword", r, Consumed(t, r))

RegisterInvitedUserRpc(fails) ==
    \E t \in Plaintexts, n \in Names, p \in Passwords, salt \in Salts,
       fail \in fails :
        LET r == RegisterInvitedUser(World, t, n, p, salt, fail) IN
        Rpc("RegisterInvitedUser", r, Consumed(t, r))

LoginRpc(fails) ==
    \E e \in EmailInputs, p \in Passwords, t \in TenantInputs, fail \in fails :
        Rpc("Login", Login(World, e, p, t, fail), {})

ForgotPasswordRpc(fails) ==
    \E e \in EmailInputs, t \in TenantInputs, raw \in RawTokens, fail \in fails :
        Rpc("ForgotPassword", ForgotPassword(World, e, t, raw, fail), {})

CreateInitialAdminRpc(fails) ==
    \E t \in TenantInputs, e \in Emails, n \in Names, fail \in fails :
        Rpc("CreateInitialAdmin", CreateInitialAdmin(World, t, e, n, fail), {})

CreateUserRpc(fails) ==
    \E t \in TenantInputs, e \in Emails, n \in Names, fail \in fails :
        Rpc("CreateUser", CreateUser(World, t, e, n, fail), {})

InviteUserRpc(fails) ==
    \E t \in TenantInputs, e \in Emails, n \in Names, rs \in RoleIDInputs,
       fail \in fails :
        Rpc("InviteUser", InviteUser(World, t, e, n, rs, fail), {})

\* the clock
Tick ==
    /\ now < MaxTime
    /\ now' = now + 1
    /\ last' = Outcome("Tick", Idle)
    /\ UNCHANGED <<users, credentials, tokens, roles, userRoles, lifecycle,
                   onboarding, pos, committed, nextUserId, nextRoleId, redeemed, calls>>

----------------------------------------------------------------------------
(* Specifications *)

\* the broker is unreachable: every publication on user.lifecycle fails,
\* alone or together with one other collaborator call
PublishPoints ==
    {"PublishUserCreated", "PublishUserInvited", "PublishUserStatusChanged",
     "PublishPasswordChanged", "PublishUserLogin", "PublishUserDeleted",
     "PublishRoleAssigned"}
BrokerDown(points) == {f \cup PublishPoints : f \in FailSets(points)}

\* the RPC surface over the store
Next ==
    \/ CreateInitialAdminRpc(BrokerDown(AdminFailPoints))
    \/ CreateUserRpc(BrokerDown(CreateUserFailPoints))
    \/ InviteUserRpc(BrokerDown(InviteFailPoints))
    \/ ForgotPasswordRpc(BrokerDown(ForgotFailPoints))
    \/ SetInitialPasswordRpc(BrokerDown(RedeemFailPoints))
    \/ ResetPasswordRpc(BrokerDown(RedeemFailPoints))
    \/ RegisterInvitedUserRpc(BrokerDown(RegisterFailPoints))
    \/ LoginRpc(BrokerDown(LoginFailPoints))
    \/ Tick

Spec == Init /\ [][Next]_vars

\* the onboarding choreography: the tenant service, the topics with their
\* consumer groups, and the administrator redeeming the setup token
NextOnboard ==
    \/ ProvisionTenant
    \/ TenantOnboardingConsumer(FailSets(OnboardingFailPoints))
    \/ UserLifecycleConsumer(FailSets(LifecycleFailPoints))
    \/ UserInvitedConsumer(FailSets(InvitedFailPoints))
    \/ ConsumerRestart
    \/ SetInitialPasswordRpc(RedeemFailSets)

SpecOnboard == Init /\ [][NextOnboard]_vars

\* the same choreography when no collaborator call returns an error; each
\* consumer is a goroutine that loops over FetchMessage for as long as the
\* process runs, so a record that can be fetched is eventually handled
NoFailure == {{}}

NextOnboardFair ==
    \/ ProvisionTenant
    \/ TenantOnboardingConsumer(NoFailure)
    \/ UserLifecycleConsumer(NoFailure)
    \/ UserInvitedConsumer(NoFailure)
    \/ SetInitialPasswordRpc(NoFailure)

SpecOnboardFair ==
    /\ Init
    /\ [][NextOnboardFair]_vars
    /\ WF_vars(TenantOnboardingConsumer(NoFailure))
    /\ WF_vars(UserLifecycleConsumer(NoFailure))
    /\ WF_vars(UserInvitedConsumer(NoFailure))

----------------------------------------------------------------------------
(* Properties of the one-time tokens (Spec) *)

\* every combination of collaborator failures the operations are checked under
AnyFailure(points) == FailSets(points) \cup BrokerDown(points)

RedeemOps == {"SetInitialPassword", "ResetPassword", "RegisterInvitedUser"}
TokenNotFound ==
    {"invalid or expired token: token not found",
     "invalid or expired invitation: token not found"}
TokenInvalid ==
    TokenNotFound \cup {"invalid or expired token: failed to get token",
                        "invalid or expired invitation: failed to get token"}
TokenExpired == {"token has expired", "invitation has expired"}

\* the results of the three redemption operations on the current state
Redemptions(t, p, salt, fail) ==
    {SetInitialPassword(World, t, p, salt, fail),
     ResetPassword(World, t, p, salt, fail)}
        \cup {RegisterInvitedUser(World, t, n, p, salt, fail) : n \in Names}

RedeemFailures == AnyFailure(RedeemFailPoints \cup RegisterFailPoints)

\* C1: a token is redeemable at most once. Once a Redeem with a plaintext has
\* succeeded, every later Redeem with the same plaintext (through any of the
\* three operations, whatever the password and whatever fails) is rejected as
\* an invalid token, "token not found" when the lookup itself works, and
\* leaves the store, the topic and the notifications as they were.
C1_RedeemAtMostOnce ==
    \A t \in Plaintexts :
        Digest(t) \in redeemed =>
            \A p \in Passwords, salt \in Salts, fail \in RedeemFailures :
                \A r \in Redemptions(t, p, salt, fail) :
                    /\ ~r.ok
                    /\ r.err \in TokenInvalid
                    /\ "GetToken" \notin fail => r.err \in TokenNotFound
                    /\ r.w = World
                    /\ r.session = <<>>

\* a redemption has succeeded, its token row is gone and a later redemption
\* has been turned down
C1_Witness ==
    /\ \E d \in redeemed : d \notin DOMAIN tokens
    /\ \E u \in DOMAIN users : users[u].status = "ACTIVE" /\ u \in DOMAIN credentials
    /\ last.op \in RedeemOps
    /\ ~last.ok

C3_SetInitialPasswordActivates ==
    \A t \in Plaintexts :
        (/\ Digest(t) \in DOMAIN tokens
         /\ ~Expired(tokens[Digest(t)].expiry, now)
         /\ tokens[Digest(t)].user_id \in DOMAIN users
         /\ users[tokens[Digest(t)].user_id].status = "PENDING_SETUP") =>
            \A p \in Passwords, salt \in Salts, fail \in AnyFailure(RedeemFailPoints) :
                LET r == SetInitialPassword(World, t, p, salt, fail)
                    u == tokens[Digest(t)].user_id
                IN
                r.ok =>
                    /\ r.w.users[u].status = "ACTIVE"
                    /\ u \in DOMAIN r.w.credentials
                    /\ \A q \in Passwords : Compare(r.w.credentials[u], q) <=> q = p
                    /\ Digest(t) \notin DOMAIN r.w.tokens

\* SetInitialPassword has just succeeded
C3_Witness ==
    /\ last = [op |-> "SetInitialPassword", ok |-> TRUE]
    /\ redeemed # {}
    /\ \E u \in DOMAIN users \cap DOMAIN credentials :
          users[u].status = "ACTIVE" /\ u # 1

\* C4: Login for a user that is SUSPENDED, PENDING_SETUP or PENDING_INVITE is
\* always rejected, before the credential is fetched or the password compared:
\* no session token is returned and no login event is published, whatever
\* the password.
C4_InactiveLoginRejected ==
    \A e \in EmailInputs, t \in Tenants :
        \A u \in UsersByEmail(World, e, t) :
            users[u].status \in {"SUSPENDED", "PENDING_SETUP", "PENDING_INVITE"} =>
                \A p \in Passwords, fail \in AnyFailure(LoginFailPoints) :
                    LET r == Login(World, e, p, t, fail) IN
                    /\ ~r.ok
                    /\ ~r.credFetched
                    /\ ~r.compared
                    /\ r.session = <<>>
                    /\ r.w = World

\* a login has been turned down while a user with a credential is pending
C4_Witness ==
    /\ last = [op |-> "Login", ok |-> FALSE]
    /\ \E u \in DOMAIN users \cap DOMAIN credentials :
          users[u].status \in {"PENDING_SETUP", "PENDING_INVITE"}
    /\ users[1].status = "SUSPENDED"

\* C9: in every reachable state every ACTIVE user has exactly one
\* credential, and no user has more than one.
C9_OneCredentialPerActiveUser ==
    \A u \in DOMAIN users :
        LET held == {c \in DOMAIN credentials : c = u} IN
        /\ Cardinality(held) <= 1
        /\ users[u].status = "ACTIVE" => Cardinality(held) = 1

\* C10: ResetPassword with a stored, unexpired PASSWORD_RESET token of an
\* ACTIVE user who already has a credential succeeds when no collaborator
\* fails; afterwards the user's credential verifies the new password and no
\* other, and the token is deleted.
C10_ResetReplacesCredential ==
    \A t \in Plaintexts :
        (/\ Digest(t) \in DOMAIN tokens
         /\ ~Expired(tokens[Digest(t)].expiry, now)
         /\ tokens[Digest(t)].scope = "PASSWORD_RESET"
         /\ tokens[Digest(t)].user_id \in DOMAIN credentials
         /\ users[tokens[Digest(t)].user_id].status = "ACTIVE") =>
            \A p \in Passwords, salt \in Salts :
                LET r == ResetPassword(World, t, p, salt, {})
                    u == tokens[Digest(t)].user_id
                IN
                /\ r.ok
                /\ \A q \in Passwords : Compare(r.w.credentials[u], q) <=> q = p
                /\ Digest(t) \notin DOMAIN r.w.tokens

----------------------------------------------------------------------------
(* Properties of the onboarding choreography (SpecOnboard, SpecOnboardFair) *)

\* the records a handler appended to user.lifecycle
Emitted(r) ==
    {r.w.lifecycle[i] : i \in (Len(lifecycle) + 1)..Len(r.w.lifecycle)}

IsInitialAdminCreated(ev) ==
    ev.kind = "UserCreated" /\ ev.is_initial_admin

RequiredAdminPermissions ==
    {"users:create", "users:read", "users:update", "users:delete"}

\* the record a consumer group fetches next
HasNext(g, log) == pos[g] < Len(log)
NextRecord(g, log) == log[pos[g] + 1]

\* C5: on the user-lifecycle topic only a user-created record with
\* isInitialAdmin = true and a user-invited record cause a token to be issued;
\* handling any other record, in either consumer group of the topic, stores
\* no token and sends no notification.
C5_OnlyAdminAndInviteIssueTokens ==
    \A g \in {LifecycleGroup, InvitedGroup} :
        HasNext(g, lifecycle) =>
            LET msg == NextRecord(g, lifecycle) IN
            (~IsInitialAdminCreated(msg) /\ msg.kind # "UserInvited") =>
                \A raw \in RawTokens, fail \in FailSets(InvitedFailPoints) :
                    LET r == IF g = LifecycleGroup
                             THEN userLifecycleHandler(World, msg, raw, fail)
                             ELSE userInvitedHandler(World, msg, raw, fail)
                    IN r.w.tokens = tokens /\ r.w.outbox = {}

\* C6: whenever CreateInitialAdmin emits user-created with isInitialAdmin =
\* true, the state it leaves holds the user of the record, PENDING_SETUP and
\* in the record's tenant, and a role named "Tenant Admin" of that tenant
\* that carries at least users:create, users:read, users:update and
\* users:delete and is assigned to the user.
C6_InitialAdminEventImpliesAdmin ==
    \A t \in TenantInputs, e \in EmailInputs, n \in Names,
       fail \in FailSets(AdminFailPoints) :
        LET r == CreateInitialAdmin(World, t, e, n, fail) IN
        \A ev \in Emitted(r) :
            IsInitialAdminCreated(ev) =>
                /\ ev.user_id \in DOMAIN r.w.users
                /\ r.w.users[ev.user_id].status = "PENDING_SETUP"
                /\ r.w.users[ev.user_id].tenant_id = ev.tenant_id
                /\ r.w.users[ev.user_id].email = ev.email
                /\ \E rid \in DOMAIN r.w.roles :
                      /\ r.w.roles[rid].name = "Tenant Admin"
                      /\ r.w.roles[rid].tenant_id = ev.tenant_id
                      /\ RequiredAdminPermissions \subseteq r.w.roles[rid].permissions
                      /\ \E ur \in r.w.userRoles :
                            ur.user_id = ev.user_id /\ ur.role_id = rid

\* the onboarding handler has just emitted user-created for a new admin
C6_Witness ==
    /\ last = [op |-> OnboardingGroup, ok |-> TRUE]
    /\ Len(lifecycle) > 0
    /\ IsInitialAdminCreated(lifecycle[Len(lifecycle)])
    /\ lifecycle[Len(lifecycle)].user_id \in DOMAIN users
    /\ userRoles # {}

HandlerFailed(g) == last = [op |-> g, ok |-> FALSE]

UserIds == 1..MaxUsers

\* a tenant-provisioned record for this admin email waits to be fetched
Provisioned(e) ==
    \E i \in (pos[OnboardingGroup] + 1)..Len(onboarding) :
        onboarding[i].admin_email = e

\* the admin exists, PENDING_SETUP, and its user-created record is on the topic
AdminCreated(e) ==
    \E u \in DOMAIN users, i \in 1..Len(lifecycle) :
        /\ users[u].email = e
        /\ users[u].status = "PENDING_SETUP"
        /\ lifecycle[i] = UserCreatedEvent(u, users[u].tenant_id, e, TRUE)

\* the user-created record of this admin waits for the token issuer
AdminAnnounced(u) ==
    \E i \in (pos[LifecycleGroup] + 1)..Len(lifecycle) :
        IsInitialAdminCreated(lifecycle[i]) /\ lifecycle[i].user_id = u

TokenIssued(u) == \E d \in DOMAIN tokens : tokens[d].user_id = u

\* SetInitialPassword with a stored token of a PENDING_SETUP user, when no
\* collaborator fails, succeeds and leaves the user ACTIVE
SetupCompletes ==
    \A t \in Plaintexts :
        (/\ Digest(t) \in DOMAIN tokens
         /\ ~Expired(tokens[Digest(t)].expiry, now)
         /\ users[tokens[Digest(t)].user_id].status = "PENDING_SETUP") =>
            \A p \in Passwords, salt \in Salts :
                LET r == SetInitialPassword(World, t, p, salt, {}) IN
                /\ r.ok
                /\ r.w.users[tokens[Digest(t)].user_id].status = "ACTIVE"
                /\ Digest(t) \notin DOMAIN r.w.tokens

\* C7: onboarding makes progress when no collaborator call fails and every
\* record is eventually fetched: a tenant-provisioned record leads to the
\* admin being created and announced, unless its handler reports a failure;
\* the announcement leads to a token being issued for the admin, unless its
\* handler reports a failure; and a SetInitialPassword with an issued token
\* then moves the admin to ACTIVE and uses the token up.
C7_OnboardingProgress ==
    /\ \A e \in Emails :
          Provisioned(e) ~> (AdminCreated(e) \/ HandlerFailed(OnboardingGroup))
    /\ \A u \in UserIds :
          AdminAnnounced(u) ~> (TokenIssued(u) \/ HandlerFailed(LifecycleGroup))
    /\ []SetupCompletes

\* an admin that was provisioned through the topic has set its password
C7_Witness ==
    /\ last = [op |-> "SetInitialPassword", ok |-> TRUE]
    /\ onboarding = <<>>
    /\ \E u \in DOMAIN users \cap DOMAIN credentials :
          /\ users[u].status = "ACTIVE"
          /\ \E ur \in userRoles : ur.user_id = u

\* the admin of this record has a user row and nothing shows that it was
\* ever announced: it is PENDING_SETUP, no record on the topic names it and
\* no token was issued for it
InsertedNotAnnounced(msg) ==
    \E u \in UsersByEmail(World, msg.admin_email, msg.tenant_id) :
        /\ users[u].status = "PENDING_SETUP"
        /\ ~TokenIssued(u)
        /\ \A i \in 1..Len(lifecycle) : lifecycle[i].user_id # u

\* C8: the tenant-provisioned handler tolerates redelivery after a partial
\* failure. When the handler has just failed on a record whose admin is
\* inserted and not announced, handling the same record again, with no
\* collaborator failing, succeeds and emits user-created with isInitialAdmin
\* = true for that admin.
C8_RedeliveryEmitsUserCreated ==
    (/\ HandlerFailed(OnboardingGroup)
     /\ pos[OnboardingGroup] \in 1..Len(onboarding)) =>
        LET msg == onboarding[pos[OnboardingGroup]]
            r == tenantOnboardingHandler(World, msg, 0, {})
        IN
        InsertedNotAnnounced(msg) =>
            /\ r.ok
            /\ \E ev \in Emitted(r) :
                  IsInitialAdminCreated(ev) /\ ev.email = msg.admin_email

----------------------------------------------------------------------------
(* Email verification *)

\* variant: the notification goes out before the digest is stored
RequestEmailVerificationNotifyFirst(w, userID, raw, fail) ==
    IF ~ValidUserUUID(userID) THEN Fail(w, "invalid user ID")
    ELSE IF "GetUserByID" \in fail \/ userID \notin DOMAIN w.users
    THEN Fail(w, "user not found")
    ELSE
      LET user == w.users[userID]
          token == Base64Encode(raw)
          hash == Sha256(raw)
          w1 == SendEmail(w, user.email, "Verify Your Email Address", token)
      IN
      IF "CreateToken" \in fail \/ ~CreateTokenOk(w, hash, userID)
      THEN Fail(w1, "failed to store verification token")
      ELSE Ok(CreateToken(w1, hash, userID, w.now + TokenTTL, "EMAIL_VERIFICATION"))
RequestEmailVerification(w, userID, raw, fail) ==
    IF ~ValidUserUUID(userID) THEN Fail(w, "invalid user ID")
    ELSE IF "GetUserByID" \in fail \/ userID \notin DOMAIN w.users
    THEN Fail(w, "user not found")
    ELSE
      LET user == w.users[userID] IN
      IF user.email_verified THEN Fail(w, "email already verified")
      ELSE IF "rand" \in fail THEN Fail(w, "failed to generate token")
      ELSE
        LET token == Base64Encode(raw)
            hash == Sha256(raw)
            expiry == w.now + TokenTTL
        IN
        IF "CreateToken" \in fail \/ ~CreateTokenOk(w, hash, userID)
        THEN Fail(w, "failed to store verification token")
        ELSE
          LET w1 == CreateToken(w, hash, userID, expiry, "EMAIL_VERIFICATION") IN
          IF "SendEmail" \in fail
          THEN Fail(w1, "failed to send verification email")
          ELSE Ok(SendEmail(w1, user.email, "Verify Your Email Address", token))

UserIDInputs == 0..MaxUsers
VerificationFailPoints == {"GetUserByID"} \cup GenerateFailPoints

RequestEmailVerificationRpc(fails) ==
    \E u \in UserIDInputs, raw \in RawTokens, fail \in fails :
        Rpc("RequestEmailVerification",
            RequestEmailVerification(World, u, raw, fail), {})

\* token issuance and redemption over the store, the broker unreachable
NextIssue ==
    \/ CreateUserRpc(BrokerDown(CreateUserFailPoints))
    \/ ForgotPasswordRpc(FailSets(ForgotFailPoints))
    \/ RequestEmailVerificationRpc(FailSets(VerificationFailPoints))
    \/ SetInitialPasswordRpc(BrokerDown(RedeemFailPoints))
    \/ Tick

SpecIssue == Init /\ [][NextIssue]_vars

----------------------------------------------------------------------------
(* Properties of token issuance (SpecIssue) *)

\* the results of the two issuing operations on the current state
Issuances(u, raw, fail) ==
    {RequestEmailVerification(World, u, raw, fail)}
        \cup {GeneratePasswordSetupToken(World, u, t, e, raw, fail) :
                t \in Tenants, e \in EmailInputs}

\* the INSERT of the digest returns an error: injected, or a constraint
StoreFails(u, raw, fail) ==
    "CreateToken" \in fail \/ ~CreateTokenOk(World, Sha256(raw), u)

\* C11: persistence precedes notification. When storing the token digest
\* fails during GeneratePasswordSetupToken or RequestEmailVerification, the
\* operation returns an error, stores nothing and sends no notification; and
\* whatever fails, every notification an issuance sends carries a plaintext
\* whose digest is stored.
C11_PersistBeforeNotify ==
    \A u \in UserIDInputs, raw \in RawTokens,
       fail \in FailSets(VerificationFailPoints) :
        \A r \in Issuances(u, raw, fail) :
            /\ StoreFails(u, raw, fail) =>
                  /\ ~r.ok
                  /\ r.w.outbox = {}
                  /\ r.w.tokens = tokens
            /\ \A m \in r.w.outbox : Digest(m.token) \in DOMAIN r.w.tokens

\* both operations reach the INSERT of a digest that is already stored and
\* fail there
C11_Witness ==
    \E u \in DOMAIN users, raw \in RawTokens :
        /\ Sha256(raw) \in DOMAIN tokens
        /\ RequestEmailVerification(World, u, raw, {}).err
              = "failed to store verification token"
        /\ GeneratePasswordSetupToken(World, u, "t1", users[u].email, raw, {}).err
              = "failed to store token"
        /\ last = [op |-> "RequestEmailVerification", ok |-> FALSE]

\* the state at a later instant t, nothing else having happened
At(w, t) == [w EXCEPT !.now = t]

\* the rejections of a redemption that are about the token itself
TokenRejections == {"invalid token format"} \cup TokenInvalid \cup TokenExpired

\* C12: notification is best effort. When the notification send fails after
\* the digest was stored, GeneratePasswordSetupToken (and
\* RequestEmailVerification) returns an error and the stored row stays: the
\* store is exactly the one a fully successful issuance leaves, and at every
\* instant up to the row's expiry SetInitialPassword with the plaintext finds
\* the row, does not reject it, and succeeds for a user without a credential.
C12_NotifyFailureKeepsToken ==
    \A u \in UserIDInputs, raw \in RawTokens :
        \A r0 \in Issuances(u, raw, {}) :
            \A r \in Issuances(u, raw, {"SendEmail"}) :
                (r0.ok /\ r.err \in {"failed to send email",
                                     "failed to send verification email"}
                       /\ (r0.token = <<>>) = (r.err # "failed to send email")) =>
                    /\ ~r.ok
                    /\ r.w = [r0.w EXCEPT !.outbox = {}]
                    /\ Sha256(raw) \in DOMAIN r.w.tokens
                    /\ r.w.tokens[Sha256(raw)].user_id = u
                    /\ r.w.tokens[Sha256(raw)].expiry = now + TokenTTL
                    /\ r.err = "failed to send email" =>
                        \A t \in now..(now + TokenTTL), p \in Passwords, salt \in Salts :
                            LET s == SetInitialPassword(At(r.w, t), Base64Encode(raw),
                                                        p, salt, {})
                            IN
                            /\ s.err \notin TokenRejections
                            /\ u \notin DOMAIN credentials =>
                                  /\ s.ok
                                  /\ Compare(s.w.credentials[u], p)
                                  /\ Sha256(raw) \notin DOMAIN s.w.tokens

\* an issuance for an existing user without a credential stores its row and
\* then fails to notify
C12_Witness ==
    \E u \in DOMAIN users \ DOMAIN credentials, raw \in RawTokens :
        /\ GeneratePasswordSetupToken(World, u, "t1", users[u].email, raw,
                                      {"SendEmail"}).err = "failed to send email"
        /\ tokens # <<>>
        /\ last = [op |-> "ForgotPassword", ok |-> FALSE]

----------------------------------------------------------------------------
(* UserService.DeleteUser *)

UserDeletedEvent(uid, tenant) ==
    [kind |-> "UserDeleted", user_id |-> uid, tenant_id |-> tenant]

\* DELETE FROM users WHERE id = $1; user_roles, credentials and tokens
\* reference users ON DELETE CASCADE
\* variant: the rows referencing the user stay (no ON DELETE CASCADE)
DeleteUserRowNoCascade(w, uid) == [w EXCEPT !.users = Remove(w.users, uid)]
DeleteUserRow(w, uid) ==
    [w EXCEPT !.users = Remove(w.users, uid),
              !.credentials = [u \in DOMAIN w.credentials \ {uid} |-> w.credentials[u]],
              !.tokens = [h \in {x \in DOMAIN w.tokens : w.tokens[x].user_id # uid}
                            |-> w.tokens[h]],
              !.userRoles = {ur \in w.userRoles : ur.user_id # uid}]

\* variant: a failed publication is only logged
DeleteUserSilent(w, userID, fail) ==
    IF ~ValidUserUUID(userID) THEN Fail(w, "invalid user ID")
    ELSE IF "GetUserByID" \in fail THEN Fail(w, "failed to get user")
    ELSE IF userID \notin DOMAIN w.users THEN Fail(w, "user not found")
    ELSE IF "DeleteUser" \in fail THEN Fail(w, "failed to delete user")
    ELSE
      LET w1 == DeleteUserRow(w, userID) IN
      IF "PublishUserDeleted" \in fail THEN Ok(w1)
      ELSE Ok(Publish(w1, UserDeletedEvent(userID, w.users[userID].tenant_id)))
DeleteUser(w, userID, fail) ==
    IF ~ValidUserUUID(userID) THEN Fail(w, "invalid user ID")
    ELSE IF "GetUserByID" \in fail THEN Fail(w, "failed to get user")
    ELSE IF userID \notin DOMAIN w.users THEN Fail(w, "user not found")
    ELSE IF "DeleteUser" \in fail THEN Fail(w, "failed to delete user")
    ELSE
      LET user == w.users[userID]
          w1 == DeleteUserRow(w, userID)
      IN
      IF "PublishUserDeleted" \in fail
      THEN Fail(w1, "failed to publish user deleted event")
      ELSE Ok(Publish(w1, UserDeletedEvent(userID, user.tenant_id)))

DeleteFailPoints == {"GetUserByID", "DeleteUser", "PublishUserDeleted"}

DeleteUserRpc(fails) ==
    \E u \in UserIDInputs, fail \in fails :
        Rpc("DeleteUser", DeleteUser(World, u, fail), {})

\* user administration and redemption over the store; the broker may be
\* reachable or not
NextAdmin ==
    \/ CreateInitialAdminRpc(AnyFailure(AdminFailPoints))
    \/ InviteUserRpc(AnyFailure(InviteFailPoints))
    \/ DeleteUserRpc(AnyFailure(DeleteFailPoints))
    \/ ForgotPasswordRpc(FailSets(ForgotFailPoints))
    \/ SetInitialPasswordRpc(AnyFailure(RedeemFailPoints))

SpecAdmin == Init /\ [][NextAdmin]_vars

----------------------------------------------------------------------------
(* Properties of event publication (SpecAdmin) *)

\* the state of the store, the topic left aside
Store(w) == [w EXCEPT !.lifecycle = <<>>]

\* r0 is a run of an operation in which nothing fails, r the same run with
\* the publication failing: the error is returned, the state change of r0 is
\* kept and nothing is appended to the topic
Surfaced(r0, r) ==
    r0.ok => /\ ~r.ok
             /\ Store(r.w) = Store(r0.w)
             /\ Store(r.w) # Store(World)
             /\ r.w.lifecycle = lifecycle

\* the same, the failure being logged only: the operation returns success
Swallowed(r0, r) ==
    r0.ok => /\ r.ok
             /\ Store(r.w) = Store(r0.w)
             /\ Store(r.w) # Store(World)
             /\ Len(r.w.lifecycle) < Len(r0.w.lifecycle)

UserServiceSurfaces ==
    /\ \A t \in TenantInputs, e \in Emails, n \in Names :
          /\ Surfaced(CreateInitialAdmin(World, t, e, n, {}),
                      CreateInitialAdmin(World, t, e, n, {"PublishUserCreated"}))
          /\ \A rs \in RoleIDInputs :
                Surfaced(InviteUser(World, t, e, n, rs, {}),
                         InviteUser(World, t, e, n, rs, {"PublishUserInvited"}))
    /\ \A u \in UserIDInputs :
          Surfaced(DeleteUser(World, u, {}),
                   DeleteUser(World, u, {"PublishUserDeleted"}))

RedeemPublishFailures ==
    {{"PublishUserStatusChanged"}, {"PublishPasswordChanged"},
     {"PublishUserStatusChanged", "PublishPasswordChanged"}}

----------------------------------------------------------------------------
(* Properties of the events of a redemption (Spec) *)

\* the records of one kind a handler appended for a user
EmittedFor(r, kind, u) ==
    {i \in (Len(lifecycle) + 1)..Len(r.w.lifecycle) :
        r.w.lifecycle[i].kind = kind /\ r.w.lifecycle[i].user_id = u}

\* C14: every successful redemption, through SetInitialPassword or through
\* RegisterInvitedUser, emits exactly one status-changed event and one
\* password-changed event for the redeemed user (the broker accepting every
\* record).
C14_RedemptionEmitsEventPair ==
    \A t \in Plaintexts, n \in Names, p \in Passwords, salt \in Salts :
        LET u == tokens[Digest(t)].user_id
            EmitsPair(r) ==
                /\ Cardinality(EmittedFor(r, "UserStatusChanged", u)) = 1
                /\ Cardinality(EmittedFor(r, "PasswordChanged", u)) = 1
            s == SetInitialPassword(World, t, p, salt, {})
            r == RegisterInvitedUser(World, t, n, p, salt, {})
        IN
        /\ (s.ok /\ users[u].status = "PENDING_SETUP") => EmitsPair(s)
        /\ (r.ok /\ users[u].status = "PENDING_INVITE") => EmitsPair(r)

----------------------------------------------------------------------------
(* Properties of registration by invitation (Spec) *)

\* the names a caller may supply at registration
NameInputs == Names \cup {"B"}

\* C15: whenever RegisterInvitedUser returns success for a stored, unexpired
\* invitation token of a PENDING_INVITE user, it returns in the same call a
\* non-empty access token and a non-empty refresh token issued to that user,
\* and in the state it leaves the user is ACTIVE under the full name
\* supplied, the user's credential verifies the supplied password and no
\* other, and the token row is deleted.
C15_RegisterInvitedUserLogsIn ==
    \A t \in Plaintexts :
        (/\ Digest(t) \in DOMAIN tokens
         /\ ~Expired(tokens[Digest(t)].expiry, now)
         /\ tokens[Digest(t)].user_id \in DOMAIN users
         /\ users[tokens[Digest(t)].user_id].status = "PENDING_INVITE") =>
            \A n \in NameInputs, p \in Passwords, salt \in Salts,
               fail \in AnyFailure(RegisterFailPoints) :
                LET r == RegisterInvitedUser(World, t, n, p, salt, fail)
                    u == tokens[Digest(t)].user_id
                    access == GenerateAccessToken(u, users[u].tenant_id, users[u].email, now)
                    refresh == GenerateRefreshToken(u, users[u].tenant_id, users[u].email, now)
                IN
                r.ok =>
                    /\ access # <<>> /\ refresh # <<>>
                    /\ r.session = access \o refresh
                    /\ r.uid = u
                    /\ r.w.users[u].status = "ACTIVE"
                    /\ r.w.users[u].full_name = n
                    /\ u \in DOMAIN r.w.credentials
                    /\ \A q \in Passwords : Compare(r.w.credentials[u], q) <=> q = p
                    /\ Digest(t) \notin DOMAIN r.w.tokens

\* an invitation token of a PENDING_INVITE user is stored, unexpired, and
\* RegisterInvitedUser succeeds with it under a new name
C15_Witness ==
    \E t \in Plaintexts :
        /\ Digest(t) \in DOMAIN tokens
        /\ tokens[Digest(t)].user_id \in DOMAIN users
        /\ users[tokens[Digest(t)].user_id].status = "PENDING_INVITE"
        /\ users[tokens[Digest(t)].user_id].full_name # "B"
        /\ RegisterInvitedUser(World, t, "B", "Secret123", "s1", {}).ok

----------------------------------------------------------------------------
(* Properties of ForgotPassword (SpecIssue) *)

\* what the caller of an operation sees
Seen(r) == [ok |-> r.ok, err |-> r.err]

\* C16: for a well-formed tenant identifier ForgotPassword returns success
\* whatever the store and the notifier do, so what the caller sees is the same
\* for an email that has a user in the tenant and for one that has none.
C16_ForgotPasswordRevealsNothing ==
    \A t \in Tenants, raw \in RawTokens, fail \in FailSets(ForgotFailPoints) :
        \A e1 \in EmailInputs, e2 \in EmailInputs :
            LET r1 == ForgotPassword(World, e1, t, raw, fail)
                r2 == ForgotPassword(World, e2, t, raw, fail)
            IN
            /\ r1.ok
            /\ Seen(r1) = Seen(r2)

----------------------------------------------------------------------------
(* gRPC status mapping *)

\* ContainsString and contains: substr occurs in s at some offset (the
\* comparison is exact, case included)
ContainsString(s, substr) ==
    /\ Len(s) >= Len(substr)
    /\ \/ s = substr
       \/ Len(substr) = 0
       \/ /\ Len(s) > 0 /\ Len(substr) > 0
          /\ \E i \in 0..(Len(s) - Len(substr)) :
                SubSeq(s, i + 1, i + Len(substr)) = substr

\* the status code of the error an RPC returns; err is err.Error() without
\* the text of a wrapped driver error; the cases are tried in order
ToGRPCError(err) ==
    IF err = "" THEN "OK"
    ELSE IF ContainsString(err, "not found") THEN "NotFound"
    ELSE IF ContainsString(err, "invalid") THEN "InvalidArgument"
    ELSE IF \/ ContainsString(err, "unauthorized")
            \/ ContainsString(err, "invalid credentials")
    THEN "Unauthenticated"
    ELSE IF \/ ContainsString(err, "permission denied")
            \/ ContainsString(err, "access denied")
    THEN "PermissionDenied"
    ELSE IF \/ ContainsString(err, "already exists")
            \/ ContainsString(err, "duplicate")
    THEN "AlreadyExists"
    ELSE "Internal"

\* C17: a redemption RPC that fails because the token is absent and one that
\* fails because the token is expired are both reported with the status
\* code Unauthenticated, so that the caller cannot tell the two cases apart.
C17_AbsentAndExpiredUnauthenticated ==
    \A t \in Plaintexts, p \in Passwords, salt \in Salts :
        \A r \in Redemptions(t, p, salt, {}) :
            r.err \in TokenNotFound \cup TokenExpired =>
                ToGRPCError(r.err) = "Unauthenticated"

----------------------------------------------------------------------------
(* Session validator *)

NoClaims == [user_id |-> NoUser, tenant_id |-> "", email |-> "", exp |-> 0,
             iat |-> 0, key |-> ""]

\* jwtValidator.ValidateToken at instant t: the token parses, its signature
\* verifies under the service key and its expiry lies after t
ValidateToken(tokenString, t) ==
    IF Len(tokenString) # 1 THEN [ok |-> FALSE, claims |-> NoClaims]
    ELSE
      LET claims == tokenString[1] IN
      IF claims.key # SecretKey \/ ~(t < claims.exp)
      THEN [ok |-> FALSE, claims |-> NoClaims]
      ELSE [ok |-> TRUE, claims |-> claims]

\* variant: the exchange is refused unless the user is still ACTIVE
RefreshTokenActiveOnly(w, refreshTokenStr, fail) ==
    LET v == ValidateToken(refreshTokenStr, w.now) IN
    IF ~v.ok THEN Fail(w, "invalid refresh token")
    ELSE IF v.claims.user_id \notin DOMAIN w.users
            \/ w.users[v.claims.user_id].status # "ACTIVE"
    THEN Fail(w, "user account is not active")
    ELSE [Ok(w) EXCEPT !.session =
             GenerateAccessToken(v.claims.user_id, v.claims.tenant_id,
                                 v.claims.email, w.now)]
RefreshToken(w, refreshTokenStr, fail) ==
    LET v == ValidateToken(refreshTokenStr, w.now) IN
    IF ~v.ok THEN Fail(w, "invalid refresh token")
    ELSE IF "GenerateAccessToken" \in fail
    THEN Fail(w, "failed to generate access token")
    ELSE [Ok(w) EXCEPT !.session =
             GenerateAccessToken(v.claims.user_id, v.claims.tenant_id,
                                 v.claims.email, w.now)]

\* DELETE FROM tokens WHERE user_id = $1
DeleteAllUserTokens(w, uid) ==
    [w EXCEPT !.tokens = [h \in {x \in DOMAIN w.tokens : w.tokens[x].user_id # uid}
                            |-> w.tokens[h]]]

Logout(w, userID, fail) ==
    IF ~ValidUserUUID(userID) THEN Fail(w, "invalid user ID")
    ELSE IF "DeleteAllUserTokens" \in fail THEN Fail(w, "failed to logout")
    ELSE Ok(DeleteAllUserTokens(w, userID))

----------------------------------------------------------------------------
(* Roles and AuthzService *)

NilTenant == "00000000-0000-0000-0000-000000000000"

\* pgUUID on a tenant identifier: a string that does not parse becomes the
\* zero UUID
pgUUID(id) == IF ValidTenantUUID(id) THEN id ELSE NilTenant

RoleAssignedEvent(uid, tenant, rid) ==
    [kind |-> "RoleAssigned", user_id |-> uid, tenant_id |-> tenant, role_id |-> rid]

\* UserService.CreateRole
UserServiceCreateRole(w, tenantID, name, permissions, fail) ==
    IF ~ValidTenantUUID(tenantID) THEN Fail(w, "invalid tenant ID")
    ELSE IF "CreateRole" \in fail \/ ~CreateRoleOk(w, tenantID, name)
    THEN Fail(w, "failed to create role")
    ELSE Ok(CreateRole(w, tenantID, name, permissions))

\* UserService.AssignRoleToUser
UserServiceAssignRoleToUser(w, userID, tenantID, roleID, fail) ==
    IF "AssignRoleToUser" \in fail \/ ~AssignRoleToUserOk(w, userID, roleID)
    THEN Fail(w, "failed to assign role")
    ELSE
      LET w1 == AssignRoleToUser(w, userID, pgUUID(tenantID), roleID) IN
      IF "PublishRoleAssigned" \in fail
      THEN Fail(w1, "failed to publish role assigned event")
      ELSE Ok(Publish(w1, RoleAssignedEvent(userID, tenantID, roleID)))

\* roleRepository.ListUserRoles: GetUserByID, then GetUserRoles with the
\* user's tenant
\* variant: only the most recently created of the user's roles is returned
ListUserRolesNewest(w, userID) ==
    LET assigned == {r \in DOMAIN w.roles :
                        \E ur \in w.userRoles :
                            /\ ur.role_id = r
                            /\ ur.user_id = userID
                            /\ ur.tenant_id = w.users[userID].tenant_id}
    IN {r \in assigned : \A r2 \in assigned : r2 <= r}
ListUserRoles(w, userID) ==
    {r \in DOMAIN w.roles :
        \E ur \in w.userRoles :
            /\ ur.role_id = r
            /\ ur.user_id = userID
            /\ ur.tenant_id = w.users[userID].tenant_id}

Decision(allowed, reason, err) == [allowed |-> allowed, reason |-> reason, err |-> err]

\* variant: the full wildcard is not looked up
checkSimplePermissionNoSuperAdmin(permissions, action, resource) ==
    IF (resource \o ":" \o action) \in permissions
    THEN Decision(TRUE, "Access granted", "")
    ELSE IF (resource \o ":*") \in permissions
    THEN Decision(TRUE, "Access granted (wildcard resource)", "")
    ELSE IF ("*:" \o action) \in permissions
    THEN Decision(TRUE, "Access granted (wildcard action)", "")
    ELSE Decision(FALSE, "Access denied", "")
checkSimplePermission(permissions, action, resource) ==
    LET requiredPermission == resource \o ":" \o action
        wildcardResourcePermission == resource \o ":*"
        wildcardActionPermission == "*:" \o action
    IN
    IF requiredPermission \in permissions
    THEN Decision(TRUE, "Access granted", "")
    ELSE IF wildcardResourcePermission \in permissions
    THEN Decision(TRUE, "Access granted (wildcard resource)", "")
    ELSE IF wildcardActionPermission \in permissions
    THEN Decision(TRUE, "Access granted (wildcard action)", "")
    ELSE IF "*:*" \in permissions
    THEN Decision(TRUE, "Access granted (super admin)", "")
    ELSE Decision(FALSE, "Access denied", "")

\* the policy engine: not configured (opaClient is nil), or configured with
\* Evaluate returning allow, deny or an error
NoEngine == "nil"
EngineOutcomes == {"allow", "deny", "error"}
Engines == {NoEngine} \cup EngineOutcomes

\* variant: a deny of the engine falls back to local evaluation
CheckAccessDenyFallsBack(w, accessToken, action, resource, opa, fail) ==
    LET v == ValidateToken(accessToken, w.now)
        userID == v.claims.user_id
    IN
    IF ~v.ok THEN Decision(FALSE, "Invalid or expired token", "invalid token")
    ELSE IF ~ValidUserUUID(userID)
    THEN Decision(FALSE, "Invalid user ID", "invalid user ID")
    ELSE IF "ListUserRoles" \in fail \/ userID \notin DOMAIN w.users
    THEN Decision(FALSE, "Failed to retrieve user roles", "failed to get user roles")
    ELSE
      LET permissions ==
              UNION {w.roles[r].permissions : r \in ListUserRoles(w, userID)}
      IN
      IF opa = "allow" THEN Decision(TRUE, "Access granted by policy", "")
      ELSE checkSimplePermission(permissions, action, resource)
CheckAccess(w, accessToken, action, resource, opa, fail) ==
    LET v == ValidateToken(accessToken, w.now)
        userID == v.claims.user_id
    IN
    IF ~v.ok THEN Decision(FALSE, "Invalid or expired token", "invalid token")
    ELSE IF ~ValidUserUUID(userID)
    THEN Decision(FALSE, "Invalid user ID", "invalid user ID")
    ELSE IF "ListUserRoles" \in fail \/ userID \notin DOMAIN w.users
    THEN Decision(FALSE, "Failed to retrieve user roles", "failed to get user roles")
    ELSE
      LET permissions ==
              UNION {w.roles[r].permissions : r \in ListUserRoles(w, userID)}
      IN
      IF opa # NoEngine
      THEN
        IF opa = "error" THEN checkSimplePermission(permissions, action, resource)
        ELSE IF opa = "allow" THEN Decision(TRUE, "Access granted by policy", "")
        ELSE Decision(FALSE, "Access denied by policy", "")
      ELSE checkSimplePermission(permissions, action, resource)

\* Inputs
RoleNames == {"r1", "r2"}
PermissionInputs == {{"*:*"}, {"users:read"}, {"users:*", "roles:read"}, {"*:write"}}
Actions == {"read", "write"}
Resources == {"users", "roles"}
RoleIDs == 0..MaxRoles

\* the session tokens a caller may present: issued by the service at some
\* instant for some claims, signed with another key, or not a token at all
SessionInputs ==
    {GenerateToken(u, "t1", SeedEmail, d, t) :
        u \in UserIDInputs, d \in {AccessTokenDuration, RefreshTokenDuration},
        t \in 0..1}
      \cup {[GenerateToken(u, "t1", SeedEmail, RefreshTokenDuration, MaxTime)
                EXCEPT ![1].key = k] : u \in UserIDInputs, k \in Keys \ {SecretKey}}
      \cup {<<>>}

CreateRoleRpc(fails) ==
    \E t \in TenantInputs, n \in RoleNames, ps \in PermissionInputs, fail \in fails :
        Rpc("CreateRole", UserServiceCreateRole(World, t, n, ps, fail), {})

AssignRoleToUserRpc(fails) ==
    \E u \in UserIDInputs, t \in TenantInputs, r \in RoleIDs, fail \in fails :
        Rpc("AssignRoleToUser", UserServiceAssignRoleToUser(World, u, t, r, fail), {})

\* AuthzHandler.CheckAccess: the store is only read
CheckAccessRpc ==
    \E tok \in SessionInputs, a \in Actions, res \in Resources, opa \in Engines,
       fail \in FailSets({"ListUserRoles"}) :
        LET d == CheckAccess(World, tok, a, res, opa, fail) IN
        /\ last' = [op |-> "CheckAccess", ok |-> d.allowed]
        /\ UNCHANGED <<users, credentials, tokens, roles, userRoles, lifecycle,
                       onboarding, pos, committed, nextUserId, nextRoleId, now,
                       redeemed, calls>>

RefreshTokenRpc(fails) ==
    \E tok \in SessionInputs, fail \in fails :
        Rpc("RefreshToken", RefreshToken(World, tok, fail), {})

\* roles, their assignment, and the decisions and exchanges made on sessions
NextAccess ==
    \/ CreateRoleRpc(FailSets({"CreateRole"}))
    \/ AssignRoleToUserRpc(BrokerDown({"AssignRoleToUser"}))
    \/ DeleteUserRpc(BrokerDown(DeleteFailPoints))
    \/ CheckAccessRpc
    \/ RefreshTokenRpc(FailSets({"GenerateAccessToken"}))
    \/ Tick

SpecAccess == Init /\ [][NextAccess]_vars

----------------------------------------------------------------------------
(* Properties of authorization decisions (SpecAccess) *)

\* the session tokens that are signed by the service and unexpired now
ValidSessions == {tok \in SessionInputs : ValidateToken(tok, now).ok}

\* the permission strings of the roles assigned to a user within the user's
\* tenant
PermissionsOf(u) ==
    UNION {roles[ur.role_id].permissions :
              ur \in {x \in userRoles : /\ x.user_id = u
                                        /\ x.tenant_id = users[u].tenant_id
                                        /\ x.role_id \in DOMAIN roles}}

\* the permission strings that grant an action on a resource
Granting(action, resource) ==
    {resource \o ":" \o action, resource \o ":*", "*:" \o action, "*:*"}

\* C18: with no policy engine configured, CheckAccess for a valid session
\* token of a user allows exactly when the union of the permission strings
\* of the user's roles contains resource:action, resource:*, *:action or
\* *:*; a token naming no stored user is denied.
C18_LocalEvaluation ==
    \A tok \in ValidSessions, a \in Actions, res \in Resources :
        LET u == tok[1].user_id
            d == CheckAccess(World, tok, a, res, NoEngine, {})
        IN
        d.allowed <=>
            /\ u \in DOMAIN users
            /\ PermissionsOf(u) \cap Granting(a, res) # {}

\* a user holds only users:read, which allows (read, users) and denies
\* (write, users), and a decision has just allowed
C18_Witness ==
    /\ \E u \in DOMAIN users :
          /\ PermissionsOf(u) = {"users:read"}
          /\ \E tok \in ValidSessions :
                /\ tok[1].user_id = u
                /\ CheckAccess(World, tok, "read", "users", NoEngine, {}).allowed
                /\ ~CheckAccess(World, tok, "write", "users", NoEngine, {}).allowed
    /\ last = [op |-> "CheckAccess", ok |-> TRUE]

\* C19: when a policy engine is configured and its Evaluate call returns
\* without error, CheckAccess returns exactly the engine's verdict, a deny
\* included even where the user's local permissions would allow; the local
\* evaluation decides only when the Evaluate call itself returns an error.
C19_EngineVerdictIsFinal ==
    \A tok \in ValidSessions, a \in Actions, res \in Resources :
        tok[1].user_id \in DOMAIN users =>
            LET local == CheckAccess(World, tok, a, res, NoEngine, {})
                Verdict(opa) == CheckAccess(World, tok, a, res, opa, {})
            IN
            /\ Verdict("allow") = Decision(TRUE, "Access granted by policy", "")
            /\ Verdict("deny") = Decision(FALSE, "Access denied by policy", "")
            /\ Verdict("error") = local
            /\ local = checkSimplePermission(PermissionsOf(tok[1].user_id), a, res)

\* the engine denies a request that the user's own permissions would allow,
\* and allows one they would deny
C19_Witness ==
    /\ \E tok \in ValidSessions, a \in Actions, res \in Resources :
          /\ tok[1].user_id \in DOMAIN users
          /\ CheckAccess(World, tok, a, res, NoEngine, {}).allowed
          /\ ~CheckAccess(World, tok, a, res, "deny", {}).allowed
          /\ ~CheckAccess(World, tok, "write", "roles", NoEngine, {}).allowed
          /\ CheckAccess(World, tok, "write", "roles", "allow", {}).allowed
    /\ last = [op |-> "CheckAccess", ok |-> FALSE]

----------------------------------------------------------------------------
(* Properties of the refresh exchange (SpecAccess) *)

\* the states of the store a user may be in when a session is presented:
\* as it is, suspended, deleted, logged out
UserStates(w, u) ==
    {w, UpdateUserStatus(w, u, "SUSPENDED"), DeleteUser(w, u, {}).w,
     Logout(w, u, {}).w}

----------------------------------------------------------------------------
(* Properties of redelivery to the user-lifecycle handler (SpecOnboard) *)

\* the user-created records with isInitialAdmin = true on the topic
InitialAdminRecords ==
    {i \in 1..Len(lifecycle) : DecodeUserCreated(lifecycle[i]).is_initial_admin}

\* a redemption with the plaintext of raw is not turned down for a reason of
\* the token at any instant up to the expiry of its row, and succeeds for a
\* user without a credential
Redeemable(w, raw, u) ==
    \A t \in w.now..w.tokens[Sha256(raw)].expiry, p \in Passwords, salt \in Salts :
        LET s == SetInitialPassword(At(w, t), Base64Encode(raw), p, salt, {}) IN
        /\ s.err \notin TokenRejections
        /\ u \notin DOMAIN w.credentials =>
              /\ s.ok
              /\ s.w.users[u].status = "ACTIVE"
              /\ Compare(s.w.credentials[u], p)

\* C21: handling the same user-created record with isInitialAdmin = true
\* twice before any redemption, each time with a fresh random draw and no
\* collaborator failing, stores two distinct tokens for the user; the second
\* handling succeeds, leaves the row of the first as it was, and both
\* plaintexts are redeemable until their expiry.
C21_RedeliveryIssuesSecondToken ==
    \A i \in InitialAdminRecords, raw1 \in RawTokens, raw2 \in RawTokens :
        LET u == DecodeUserCreated(lifecycle[i]).user_id
            r1 == userLifecycleHandler(World, lifecycle[i], raw1, {})
            r2 == userLifecycleHandler(r1.w, lifecycle[i], raw2, {})
        IN
        (/\ u \in DOMAIN users
         /\ raw1 # raw2
         /\ {Sha256(raw1), Sha256(raw2)} \cap DOMAIN tokens = {}) =>
            /\ r1.ok /\ r2.ok
            /\ DOMAIN r2.w.tokens = DOMAIN tokens \cup {Sha256(raw1), Sha256(raw2)}
            /\ r2.w.tokens[Sha256(raw1)] = r1.w.tokens[Sha256(raw1)]
            /\ r2.w.tokens[Sha256(raw1)].user_id = u
            /\ r2.w.tokens[Sha256(raw2)].user_id = u
            /\ r2.token # r1.token
            /\ Redeemable(r2.w, raw1, u)
            /\ Redeemable(r2.w, raw2, u)

\* the record of a PENDING_SETUP admin was handled twice: two tokens of the
\* admin are stored and the handler has just succeeded
C21_Witness ==
    /\ \E i \in InitialAdminRecords :
          LET u == DecodeUserCreated(lifecycle[i]).user_id IN
          /\ u \in DOMAIN users /\ users[u].status = "PENDING_SETUP"
          /\ u \notin DOMAIN credentials
          /\ Cardinality({h \in DOMAIN tokens : tokens[h].user_id = u}) = 2
    /\ last = [op |-> LifecycleGroup, ok |-> TRUE]

----------------------------------------------------------------------------
(* Referential integrity of credentials and tokens (SpecAdmin) *)

\* the credentials and the tokens of w all belong to users of w
Owned(w) ==
    /\ DOMAIN w.credentials \subseteq DOMAIN w.users
    /\ \A h \in DOMAIN w.tokens : w.tokens[h].user_id \in DOMAIN w.users

\* C22: in every reachable state each stored credential and each stored
\* one-time token belongs to a stored user. A DeleteUser that removed the
\* user's row (it succeeded, or only its publication failed) leaves no
\* credential and no token of that user, and a redemption with the plaintext
\* of one of the user's former tokens is then rejected as an invalid token
\* without changing anything.
C22_CredentialsAndTokensOwned ==
    /\ Owned(World)
    /\ \A u \in UserIDInputs, fail \in AnyFailure(DeleteFailPoints) :
          LET r == DeleteUser(World, u, fail) IN
          (r.ok \/ r.err = "failed to publish user deleted event") =>
              /\ u \notin DOMAIN r.w.users
              /\ u \notin DOMAIN r.w.credentials
              /\ \A h \in DOMAIN r.w.tokens : r.w.tokens[h].user_id # u
              /\ Owned(r.w)
              /\ \A raw \in RawTokens, p \in Passwords, salt \in Salts,
                    rf \in RedeemFailures :
                    (Sha256(raw) \in DOMAIN tokens /\ tokens[Sha256(raw)].user_id = u) =>
                        \A s \in {SetInitialPassword(r.w, Base64Encode(raw), p, salt, rf),
                                  ResetPassword(r.w, Base64Encode(raw), p, salt, rf),
                                  RegisterInvitedUser(r.w, Base64Encode(raw), "A", p, salt, rf)} :
                            /\ ~s.ok
                            /\ s.err \in TokenInvalid
                            /\ s.w = r.w

\* a DeleteUser has just succeeded, and a stored user holds a credential and
\* a token, all of which its deletion removes
C22_Witness ==
    /\ last = [op |-> "DeleteUser", ok |-> TRUE]
    /\ \E u \in DOMAIN credentials, raw \in RawTokens :
          /\ Sha256(raw) \in DOMAIN tokens
          /\ tokens[Sha256(raw)].user_id = u
          /\ DeleteUser(World, u, {}).ok

----------------------------------------------------------------------------
(* Uniqueness of token digests (SpecIssue) *)

GenerationFailures == {"failed to store token", "failed to store verification token"}

\* C23: token digests are unique in the store. An issuance whose draw has a
\* digest that is already stored gets as far as the INSERT and fails there
\* with the store-failure error of the generation; the store, with the
\* existing row's user, expiry and scope, is left as it was and no
\* notification is sent. ForgotPassword reports it as a failed generation.
C23_DigestsUnique ==
    \A raw \in RawTokens :
        Sha256(raw) \in DOMAIN tokens =>
            /\ \A u \in UserIds, fail \in {{}, {"SendEmail"}} :
                  \A r \in Issuances(u, raw, fail) :
                      /\ ~r.ok
                      /\ r.err \in GenerationFailures
                           \cup {"user not found", "email already verified"}
                      /\ r.w = World
               \* the issuance for a stored user with an unverified address
               \* reaches the INSERT
            /\ \A u \in DOMAIN users :
                  /\ GeneratePasswordSetupToken(World, u, "t1", users[u].email, raw, {}).err
                        = "failed to store token"
                  /\ ~users[u].email_verified =>
                        RequestEmailVerification(World, u, raw, {}).err
                            = "failed to store verification token"
            /\ \A e \in Emails \cup {SeedEmail}, fail \in {{}, {"SendEmail"}} :
                  LET r == ForgotPassword(World, e, "t1", raw, fail) IN
                  /\ r.w = World
                  /\ UsersByEmail(World, e, "t1") # {} =>
                        ~r.ok /\ r.err = "failed to generate reset token"

\* an issuance has just failed while a token of one user is stored and
\* another user exists, for whom a draw of the same bytes collides
C23_Witness ==
    /\ last.ok = FALSE
    /\ last.op \in {"ForgotPassword", "RequestEmailVerification"}
    /\ \E raw \in RawTokens, u \in DOMAIN users :
          /\ Sha256(raw) \in DOMAIN tokens
          /\ tokens[Sha256(raw)].user_id # u
          /\ tokens[Sha256(raw)].scope = "PASSWORD_RESET"
          /\ ~RequestEmailVerification(World, u, raw, {}).ok

----------------------------------------------------------------------------
(* AuthnService.VerifyEmail *)

UserUpdatedEvent(uid, tenant) ==
    [kind |-> "UserUpdated", user_id |-> uid, tenant_id |-> tenant]

\* UPDATE users SET email_verified = $2 WHERE id = $1
UpdateEmailVerified(w, uid, verified) ==
    IF uid \in DOMAIN w.users
    THEN [w EXCEPT !.users[uid].email_verified = verified]
    ELSE w

\* variant: the scope of the stored token is not looked at
VerifyEmailAnyScope(w, verificationToken, fail) ==
    LET dec == Base64Decode(verificationToken) IN
    IF ~dec.ok THEN Fail(w, "invalid token format")
    ELSE
      LET tokenHash == Sha256(dec.bytes) IN
      IF "GetToken" \in fail
      THEN Fail(w, "invalid or expired verification token: failed to get token")
      ELSE IF tokenHash \notin DOMAIN w.tokens
      THEN Fail(w, "invalid or expired verification token: token not found")
      ELSE
        LET storedToken == w.tokens[tokenHash]
            userID == storedToken.user_id
        IN
        IF Expired(storedToken.expiry, w.now)
        THEN Fail(w, "verification token has expired")
        ELSE IF "UpdateEmailVerified" \in fail
        THEN Fail(w, "failed to update email verification status")
        ELSE
          LET w1 == UpdateEmailVerified(w, userID, TRUE) IN
          IF "GetUserByID" \in fail \/ userID \notin DOMAIN w1.users
          THEN Fail(w1, "failed to get user")
          ELSE IF "DeleteToken" \in fail THEN Fail(w1, "failed to delete token")
          ELSE
            LET w2 == DeleteToken(w1, tokenHash) IN
            IF "PublishUserUpdated" \in fail THEN Ok(w2)
            ELSE Ok(Publish(w2, UserUpdatedEvent(userID, w1.users[userID].tenant_id)))
VerifyEmail(w, verificationToken, fail) ==
    LET dec == Base64Decode(verificationToken) IN
    IF ~dec.ok THEN Fail(w, "invalid token format")
    ELSE
      LET tokenHash == Sha256(dec.bytes) IN
      IF "GetToken" \in fail
      THEN Fail(w, "invalid or expired verification token: failed to get token")
      ELSE IF tokenHash \notin DOMAIN w.tokens
      THEN Fail(w, "invalid or expired verification token: token not found")
      ELSE
        LET storedToken == w.tokens[tokenHash]
            userID == storedToken.user_id
        IN
        IF Expired(storedToken.expiry, w.now)
        THEN Fail(w, "verification token has expired")
        ELSE IF storedToken.scope # "EMAIL_VERIFICATION"
        THEN Fail(w, "invalid token scope")
        ELSE IF "UpdateEmailVerified" \in fail
        THEN Fail(w, "failed to update email verification status")
        ELSE
          LET w1 == UpdateEmailVerified(w, userID, TRUE) IN
          IF "GetUserByID" \in fail \/ userID \notin DOMAIN w1.users
          THEN Fail(w1, "failed to get user")
          ELSE IF "DeleteToken" \in fail THEN Fail(w1, "failed to delete token")
          ELSE
            LET w2 == DeleteToken(w1, tokenHash) IN
            IF "PublishUserUpdated" \in fail THEN Ok(w2)
            ELSE Ok(Publish(w2, UserUpdatedEvent(userID, w1.users[userID].tenant_id)))

VerifyFailPoints ==
    {"GetToken", "UpdateEmailVerified", "GetUserByID", "DeleteToken",
     "PublishUserUpdated"}

VerifyEmailCall(fails) ==
    \E t \in Plaintexts, fail \in fails :
        LET r == VerifyEmail(World, t, fail) IN
        Rpc("VerifyEmail", r, Consumed(t, r))

\* issuance of tokens of both scopes and email verification over the store
NextVerify ==
    \/ ForgotPasswordRpc(FailSets(ForgotFailPoints))
    \/ RequestEmailVerificationRpc(FailSets(VerificationFailPoints))
    \/ VerifyEmailCall(FailSets(VerifyFailPoints))
    \/ Tick

SpecVerify == Init /\ [][NextVerify]_vars

----------------------------------------------------------------------------
(* Properties of email verification (SpecVerify) *)

\* the stored tokens that are unexpired at instant t and whose scope is not
\* EMAIL_VERIFICATION
OtherScopeTokens(t) ==
    {raw \in RawTokens :
        /\ Sha256(raw) \in DOMAIN tokens
        /\ ~Expired(tokens[Sha256(raw)].expiry, t)
        /\ tokens[Sha256(raw)].scope # "EMAIL_VERIFICATION"}

\* C24: VerifyEmail rejects every stored, unexpired token whose scope is not
\* EMAIL_VERIFICATION: whatever else fails it returns an error, "invalid
\* token scope" when the lookup works, and leaves the user's email-verified
\* flag, the token and the rest of the store unchanged and publishes nothing.
C24_VerifyEmailChecksScope ==
    \A t \in now..MaxTime, fail \in FailSets(VerifyFailPoints) :
      \A raw \in OtherScopeTokens(t) :
        LET r == VerifyEmail(At(World, t), Base64Encode(raw), fail) IN
        /\ ~r.ok
        /\ "GetToken" \notin fail => r.err = "invalid token scope"
        /\ r.w = At(World, t)

\* an unexpired password-reset token of a user with an unverified address is
\* stored next to an email-verification token, and a VerifyEmail call has
\* just been turned down
C24_Witness ==
    /\ last = [op |-> "VerifyEmail", ok |-> FALSE]
    /\ \E raw \in OtherScopeTokens(now) :
          ~users[tokens[Sha256(raw)].user_id].email_verified
    /\ \E raw \in RawTokens :
          /\ Sha256(raw) \in DOMAIN tokens
          /\ tokens[Sha256(raw)].scope = "EMAIL_VERIFICATION"
          /\ VerifyEmail(World, Base64Encode(raw), {}).ok

----------------------------------------------------------------------------
(* What the two token-issuing handlers write to the logger *)

\* a logger.Info call: the format string and the sequence of its arguments
\* (a plaintext token is itself a sequence)
LogLine(format, arg) == [format |-> format, arg |-> arg]

\* the lines userLifecycleHandler writes in the run that returns r
userLifecycleHandlerLog(value, r) ==
    LET event == DecodeUserCreated(value) IN
    IF ~event.is_initial_admin THEN <<>>
    ELSE
      <<LogLine("Generating password setup token for initial admin: %s", <<event.user_id>>)>>
        \o (IF ~r.ok THEN <<>>
            ELSE <<LogLine("Password setup token generated and email sent to: %s", <<event.email>>),
                   LogLine("SETUP TOKEN: %s", r.token),
                   LogLine("Copy this token and use it in SetInitialPassword RPC", <<>>)>>)

\* the lines userInvitedHandler writes in the run that returns r
userInvitedHandlerLog(value, r, fail) ==
    LET event == DecodeUserInvited(value) IN
    <<LogLine("Processing user invitation for: %s", <<event.email>>)>>
      \o (IF ~r.ok THEN <<>>
          ELSE (IF "PublishEmailNotification" \in fail
                THEN <<LogLine("Failed to publish email notification: %v",
                               <<"PublishEmailNotification">>)>>
                ELSE <<>>)
               \o <<LogLine("Invitation email sent to: %s", <<event.email>>),
                    LogLine("INVITATION TOKEN: %s", r.token),
                    LogLine("Copy this token and use it in RegisterInvitedUser RPC", <<>>)>>)

----------------------------------------------------------------------------
(* Where the plaintext of a token goes (SpecOnboard) *)

\* the store of w holds the plaintext nowhere: no token row is keyed by it
PlaintextNotStored(w, token) ==
    \A h \in DOMAIN w.tokens : h # token

\* the only messages of w carrying the plaintext are addressed to email
OnlyNotifiedTo(w, token, email) ==
    \A msg \in w.outbox : msg.token = token => msg.to = email

Unlogged(lines, token) ==
    \A i \in 1..Len(lines) : lines[i].arg # token

\* C25: the plaintext of a one-time token is never persisted and is written
\* to no sink other than the notification addressed to the user. For every
\* record on the topic, every draw and every failure, a run of either
\* issuing handler stores the digest only, sends the plaintext in messages
\* to the event's address only, and writes it to no log line.
C25_PlaintextOnlyInNotification ==
    \A i \in 1..Len(lifecycle), raw \in RawTokens :
        LET token == Base64Encode(raw) IN
        /\ \A fail \in FailSets(LifecycleFailPoints) :
              LET r == userLifecycleHandler(World, lifecycle[i], raw, fail) IN
              /\ PlaintextNotStored(r.w, token)
              /\ OnlyNotifiedTo(r.w, token, DecodeUserCreated(lifecycle[i]).email)
              /\ Unlogged(userLifecycleHandlerLog(lifecycle[i], r), token)
        /\ \A fail \in FailSets(InvitedFailPoints) :
              LET r == userInvitedHandler(World, lifecycle[i], raw, fail) IN
              /\ PlaintextNotStored(r.w, token)
              /\ OnlyNotifiedTo(r.w, token, DecodeUserInvited(lifecycle[i]).email)
              /\ Unlogged(userInvitedHandlerLog(lifecycle[i], r, fail), token)

----------------------------------------------------------------------------
(* The plaintext handed out and the digest stored (SpecIssue) *)

----------------------------------------------------------------------------
(* Overlapping redemptions: each store call of SetInitialPassword and of     *)
(* RegisterInvitedUser is one step; the methods run in no transaction.      *)
(* ResetPassword delegates to SetInitialPassword and takes the same steps.  *)
(* The broker is unreachable, so the two publications of                    *)
(* SetInitialPassword are logged failures and write nothing.                *)

\* the password each caller supplies
PasswordOf(c) == IF c = 1 THEN "Secret123" ELSE "Other456"

InProgress(c) == calls[c].pc \notin {"idle", "done"}

\* the call returns
Return(c, ok, err) ==
    /\ calls' = [calls EXCEPT ![c].pc = "done", ![c].ok = ok, ![c].err = err]
    /\ last' = [op |-> calls[c].op, ok |-> ok]

\* the call goes on to its next store call
Goto(c, pc) ==
    /\ calls' = [calls EXCEPT ![c].pc = pc]
    /\ UNCHANGED last

\* the statement after CreateCredential, after the status update and after
\* GetUserByID, per method
AfterCreate(op) ==
    IF op = "RegisterInvitedUser" THEN "ActivateInvitedUser" ELSE "GetUserByID"
AfterGetUser(op) ==
    IF op = "RegisterInvitedUser" THEN "DeleteToken" ELSE "UpdateUserStatus"

\* decode, GetToken, the expiry check and Hash
RedeemGetToken(c) ==
    /\ calls[c].pc = "idle"
    /\ \E op \in {"SetInitialPassword", "RegisterInvitedUser"},
          raw \in RawTokens, salt \in Salts :
          LET tokenHash == Sha256(Base64Decode(Base64Encode(raw)).bytes)
              found == tokenHash \in DOMAIN tokens
              start == [calls EXCEPT ![c].op = op,
                                     ![c].overlapped = \E d \in CallIds : InProgress(d)]
          IN
          IF ~found \/ Expired(tokens[tokenHash].expiry, now)
          THEN /\ calls' = [start EXCEPT ![c].pc = "done",
                                         ![c].err =
                                             IF op = "RegisterInvitedUser"
                                             THEN RegisterInvitedUser(World,
                                                      Base64Encode(raw), "A",
                                                      PasswordOf(c), salt, {}).err
                                             ELSE SetInitialPassword(World,
                                                      Base64Encode(raw),
                                                      PasswordOf(c), salt, {}).err]
               /\ last' = [op |-> op, ok |-> FALSE]
          ELSE /\ calls' = [start EXCEPT
                               ![c].pc = "CreateCredential",
                               ![c].tokenHash = tokenHash,
                               ![c].userID = tokens[tokenHash].user_id,
                               ![c].passwordHash = Hash(PasswordOf(c), salt)]
               /\ UNCHANGED last
    /\ UNCHANGED <<users, credentials, tokens, roles, userRoles, lifecycle,
                   onboarding, pos, committed, nextUserId, nextRoleId, now, redeemed>>

RedeemCreateCredential(c) ==
    /\ calls[c].pc = "CreateCredential"
    /\ IF CreateCredentialOk(World, calls[c].userID)
       THEN /\ credentials' =
                 CreateCredential(World, calls[c].userID, calls[c].passwordHash).credentials
            /\ calls' = [calls EXCEPT ![c].pc = AfterCreate(calls[c].op),
                                      ![c].created = TRUE]
            /\ UNCHANGED last
       ELSE /\ Return(c, FALSE, "failed to create credential")
            /\ UNCHANGED credentials
    /\ UNCHANGED <<users, tokens, roles, userRoles, lifecycle,
                   onboarding, pos, committed, nextUserId, nextRoleId, now, redeemed>>

RedeemGetUserByID(c) ==
    /\ calls[c].pc = "GetUserByID"
    /\ IF calls[c].userID \in DOMAIN users
       THEN Goto(c, AfterGetUser(calls[c].op))
       ELSE Return(c, FALSE, "failed to get user")
    /\ UNCHANGED <<users, credentials, tokens, roles, userRoles, lifecycle,
                   onboarding, pos, committed, nextUserId, nextRoleId, now, redeemed>>

\* UpdateUserStatus, or an error of the store
RedeemUpdateUserStatus(c) ==
    /\ calls[c].pc = "UpdateUserStatus"
    /\ \E failed \in BOOLEAN :
          IF failed
          THEN Return(c, FALSE, "failed to update user status") /\ UNCHANGED users
          ELSE /\ users' = UpdateUserStatus(World, calls[c].userID, "ACTIVE").users
               /\ Goto(c, "DeleteToken")
    /\ UNCHANGED <<credentials, tokens, roles, userRoles, lifecycle,
                   onboarding, pos, committed, nextUserId, nextRoleId, now, redeemed>>

RedeemActivateInvitedUser(c) ==
    /\ calls[c].pc = "ActivateInvitedUser"
    /\ \E failed \in BOOLEAN, n \in Names :
          IF failed
          THEN Return(c, FALSE, "failed to activate user") /\ UNCHANGED users
          ELSE /\ users' = ActivateInvitedUser(World, calls[c].userID, n).users
               /\ Goto(c, "GetUserByID")
    /\ UNCHANGED <<credentials, tokens, roles, userRoles, lifecycle,
                   onboarding, pos, committed, nextUserId, nextRoleId, now, redeemed>>

\* DeleteToken, or an error of the store; the session tokens of
\* RegisterInvitedUser are computed from the user read before
RedeemDeleteToken(c) ==
    /\ calls[c].pc = "DeleteToken"
    /\ \E failed \in BOOLEAN :
          IF failed
          THEN Return(c, FALSE, "failed to delete token") /\ UNCHANGED <<tokens, redeemed>>
          ELSE /\ tokens' = DeleteToken(World, calls[c].tokenHash).tokens
               /\ redeemed' = redeemed \cup {calls[c].tokenHash}
               /\ Return(c, TRUE, "")
    /\ UNCHANGED <<users, credentials, roles, userRoles, lifecycle,
                   onboarding, pos, committed, nextUserId, nextRoleId, now>>

\* an administrator invites users, tokens are issued for them, and two
\* callers redeem
NextRace ==
    \/ InviteUserRpc({PublishPoints})
    \/ ForgotPasswordRpc({{}})
    \/ \E c \in CallIds : RedeemGetToken(c)
    \/ \E c \in CallIds : RedeemCreateCredential(c)
    \/ \E c \in CallIds : RedeemGetUserByID(c)
    \/ \E c \in CallIds : RedeemUpdateUserStatus(c)
    \/ \E c \in CallIds : RedeemActivateInvitedUser(c)
    \/ \E c \in CallIds : RedeemDeleteToken(c)

SpecRace == Init /\ [][NextRace]_vars

----------------------------------------------------------------------------
(* Properties of overlapping redemptions (SpecRace) *)

\* the calls for user u whose CreateCredential inserted the row, and those
\* that returned success
Creators(u) == {c \in CallIds : calls[c].created /\ calls[c].userID = u}
Winners(u) ==
    {c \in CallIds : calls[c].pc = "done" /\ calls[c].ok /\ calls[c].userID = u}

\* C27: under any interleaving of two redemptions for the same user, with
\* the same token or with two different valid tokens, at most one call
\* creates the credential, only that call can return success, the stored
\* password hash is and stays the one that call supplied, and a call that
\* did not create it fails with 'failed to create credential'.
C27_OneRedemptionWins ==
    \A u \in UserIds :
        /\ Cardinality(Creators(u)) <= 1
        /\ Winners(u) \subseteq Creators(u)
        /\ \A c \in Creators(u) :
              /\ u \in DOMAIN credentials
              /\ credentials[u] = calls[c].passwordHash
              /\ Compare(credentials[u], PasswordOf(c))
        /\ \A c \in CallIds \ Creators(u) :
              (calls[c].userID = u /\ calls[c].pc \notin {"idle", "CreateCredential"}) =>
                  /\ calls[c].pc = "done"
                  /\ calls[c].err = "failed to create credential"

\* two calls for the same user overlapped, each with its own token; one
\* returned success and the other failed at CreateCredential
C27_Witness ==
    \E c \in CallIds, d \in CallIds :
        /\ calls[c].pc = "done" /\ calls[c].ok
        /\ calls[d].pc = "done" /\ ~calls[d].ok
        /\ calls[d].err = "failed to create credential"
        /\ calls[d].overlapped
        /\ calls[d].userID = calls[c].userID
        /\ calls[d].tokenHash # calls[c].tokenHash

----------------------------------------------------------------------------
(* Retrying a redemption that failed half-way (Spec) *)

\* the errors SetInitialPassword returns after the credential was created
PartialFailures ==
    {"failed to get user", "failed to update user status", "failed to delete token"}

\* C28: a redemption can be retried after a partial failure. When
\* SetInitialPassword fails after the credential was created but before the
\* status update or the token deletion completed, a later SetInitialPassword
\* with the same, still unexpired token and no failure succeeds and leaves
\* the user ACTIVE with the token deleted.
C28_RetryAfterPartialFailure ==
    \A t \in Plaintexts, p \in Passwords, salt \in Salts,
       fail \in {{"GetUserByID"}, {"UpdateUserStatus"}, {"DeleteToken"}} :
        LET r1 == SetInitialPassword(World, t, p, salt, fail) IN
        (~r1.ok /\ r1.err \in PartialFailures) =>
            LET u == tokens[Digest(t)].user_id
                r2 == SetInitialPassword(r1.w, t, p, salt, {})
            IN
            /\ u \in DOMAIN r1.w.credentials
            /\ r2.ok
            /\ r2.w.users[u].status = "ACTIVE"
            /\ Digest(t) \notin DOMAIN r2.w.tokens

----------------------------------------------------------------------------
(* Records whose handler failed (SpecOnboard) *)

\* C29: a record whose handler returned an error is not lost. Right after a
\* handler of group g failed, the record it was given is the one at offset
\* pos[g], above the committed offset; no step that follows without that
\* record having been handled again moves the group's committed offset up to
\* or past it. (Retention only lowers the offsets the model keeps.)
C29_FailedRecordNotCommitted ==
    [][\A g \in Groups : HandlerFailed(g) => committed'[g] < pos[g]]_vars

----------------------------------------------------------------------------
(* Rejected redemptions (Spec) *)

\* C30: a redemption (SetInitialPassword, ResetPassword or
\* RegisterInvitedUser) that fails because the token is malformed, absent or
\* expired changes nothing: credentials, users, tokens and the rest of the
\* store are as before, no event is published, no notification is sent and
\* no session token is returned, whatever else would have failed.
C30_RejectedRedemptionChangesNothing ==
    \A t \in Plaintexts, p \in Passwords, salt \in Salts,
       fail \in FailSets(RedeemFailPoints \cup RegisterFailPoints) :
        \A r \in Redemptions(t, p, salt, fail) :
            r.err \in TokenRejections =>
                /\ ~r.ok
                /\ r.w = World
                /\ r.session = <<>>

\* a redemption has just been turned down while an expired token and an
\* unexpired token are stored, and a malformed and an unknown plaintext are
\* turned down as well
C30_Witness ==
    /\ ~last.ok /\ last.op \in RedeemOps
    /\ \E raw \in RawTokens :
          /\ Sha256(raw) \in DOMAIN tokens
          /\ Expired(tokens[Sha256(raw)].expiry, now)
          /\ SetInitialPassword(World, Base64Encode(raw), "Secret123", "s1", {}).err
                \in TokenExpired
    /\ \E raw \in RawTokens :
          RegisterInvitedUser(World, Base64Encode(raw), "A", "Secret123", "s1", {}).err
              \in TokenNotFound
    /\ ResetPassword(World, Malformed, "Secret123", "s1", {}).err = "invalid token format"

----------------------------------------------------------------------------
(* Status transitions. No operation of the service writes SUSPENDED: a      *)
(* suspension is an administrative change of the users table, and it can    *)
(* hit a user that has not set a password yet. SpecSuspended starts from    *)
(* such a store.                                                            *)

InitSuspended ==
    /\ users = (1 :> SeedUser)
    /\ credentials = <<>>
    /\ nextUserId = 2
    /\ tokens = <<>>
    /\ roles = <<>>
    /\ userRoles = {}
    /\ lifecycle = <<>>
    /\ onboarding = <<>>
    /\ pos = [g \in Groups |-> 0]
    /\ committed = [g \in Groups |-> 0]
    /\ nextRoleId = 1
    /\ now = 0
    /\ last = Outcome("Init", Idle)
    /\ redeemed = {}
    /\ calls = [c \in CallIds |-> NoCall]

\* invitation, token issuance and the three redemptions, the broker
\* unreachable
NextSuspended ==
    \/ InviteUserRpc({PublishPoints})
    \/ ForgotPasswordRpc({{}})
    \/ SetInitialPasswordRpc({PublishPoints})
    \/ ResetPasswordRpc({PublishPoints})
    \/ RegisterInvitedUserRpc({{}})
    \/ Tick

SpecSuspended == InitSuspended /\ [][NextSuspended]_vars

Pending == {"PENDING_SETUP", "PENDING_INVITE"}

----------------------------------------------------------------------------
(* The purpose of a token (SpecIssue) *)

\* C32: a token issued with scope EMAIL_VERIFICATION cannot be redeemed
\* through SetInitialPassword, ResetPassword or RegisterInvitedUser: with
\* its plaintext none of the three succeeds, creates a credential or changes
\* a user.
C32_VerificationTokenSetsNoPassword ==
    \A raw \in RawTokens, p \in Passwords, salt \in Salts :
        (/\ Sha256(raw) \in DOMAIN tokens
         /\ tokens[Sha256(raw)].scope = "EMAIL_VERIFICATION") =>
            \A r \in Redemptions(Base64Encode(raw), p, salt, {}) :
                /\ ~r.ok
                /\ r.w.credentials = credentials
                /\ r.w.users = users

----------------------------------------------------------------------------
(* Roles of two tenants (SpecTenants) *)

CreateRoleIn(tenants, permissions, fails) ==
    \E t \in tenants, n \in RoleNames, ps \in permissions, fail \in fails :
        Rpc("CreateRole", UserServiceCreateRole(World, t, n, ps, fail), {})

AssignRoleIn(tenants, fails) ==
    \E u \in UserIDInputs, t \in tenants, r \in RoleIDs, fail \in fails :
        Rpc("AssignRoleToUser", UserServiceAssignRoleToUser(World, u, t, r, fail), {})

\* roles are created in either tenant, assigned with either tenant id and
\* requested in invitations; the broker is unreachable. The decisions are
\* evaluated on every state of the store.
NextTenants ==
    \/ CreateRoleIn(Tenants \cup {OtherTenant}, {{"users:read"}, {"*:write"}}, {{}})
    \/ AssignRoleIn(Tenants \cup {OtherTenant}, {PublishPoints})
    \/ InviteUserRpc({PublishPoints})

SpecTenants == Init /\ [][NextTenants]_vars

\* the permission strings of the roles of u's own tenant that are assigned
\* to u
OwnTenantPermissions(u) ==
    UNION {roles[r].permissions :
              r \in {x \in DOMAIN roles :
                        /\ roles[x].tenant_id = users[u].tenant_id
                        /\ \E ur \in userRoles : ur.user_id = u /\ ur.role_id = x}}

\* C33: CheckAccess derives a user's permissions only from roles of the
\* user's own tenant. Whatever was passed to InviteUser and
\* AssignRoleToUser, a local decision for a valid session of a stored user
\* allows only when a role of the user's tenant assigned to the user holds a
\* granting permission.
C33_OwnTenantRolesOnly ==
    \A tok \in ValidSessions, a \in Actions, res \in Resources :
        LET u == tok[1].user_id IN
        (u \in DOMAIN users /\ CheckAccess(World, tok, a, res, NoEngine, {}).allowed) =>
            OwnTenantPermissions(u) \cap Granting(a, res) # {}

----------------------------------------------------------------------------
(* The kind of a session token (SpecAccess) *)

\* C34: RefreshToken mints an access token only from a token that was issued
\* as a refresh token: every token GenerateAccessToken issued, at whatever
\* instant and for whatever user, is rejected by RefreshToken.
C34_RefreshRejectsAccessToken ==
    \A u \in UserIDInputs, e \in EmailInputs, t \in 0..now :
        ~RefreshToken(World, GenerateAccessToken(u, "t1", e, t), {}).ok

----------------------------------------------------------------------------
(* Invitations with a malformed role id (SpecAdmin) *)

\* C35: InviteUser is all-or-nothing with respect to its inputs. When one of
\* the requested role ids is malformed, InviteUser returns an error and has
\* created no user, assigned no role and published no event.
C35_InviteUserAllOrNothing ==
    \A t \in TenantInputs, e \in Emails, n \in Names,
       rs \in RoleIDInputs \cup {<<1, NoRole>>} :
        (\E i \in 1..Len(rs) : ~ValidRoleUUID(rs[i])) =>
            LET r == InviteUser(World, t, e, n, rs, {}) IN
            /\ ~r.ok
            /\ r.w.users = users
            /\ r.w.userRoles = userRoles
            /\ r.w.lifecycle = lifecycle

----------------------------------------------------------------------------
(* Status codes of a failed Login (Spec) *)

\* C36: Login with an unknown email and Login with a wrong password for an
\* existing ACTIVE user are both reported to the RPC caller with the status
\* code Unauthenticated.
C36_BadCredentialsUnauthenticated ==
    \A e \in EmailInputs, p \in Passwords :
        LET r == Login(World, e, p, "t1", {})
            found == UsersByEmail(World, e, "t1")
        IN
        /\ found = {} => ToGRPCError(r.err) = "Unauthenticated"
        /\ \A u \in found :
              (/\ users[u].status = "ACTIVE"
               /\ u \in DOMAIN credentials
               /\ ~Compare(credentials[u], p)) =>
                  ToGRPCError(r.err) = "Unauthenticated"

\* the part of C36 about the wrong password alone
C36_WrongPasswordUnauthenticated ==
    \A e \in EmailInputs, p \in Passwords :
        \A u \in UsersByEmail(World, e, "t1") :
            (/\ users[u].status = "ACTIVE"
             /\ u \in DOMAIN credentials
             /\ ~Compare(credentials[u], p)) =>
                ToGRPCError(Login(World, e, p, "t1", {}).err) = "Unauthenticated"

----------------------------------------------------------------------------
(* The status-changed event of a redemption (Spec) *)

\* the events a call has published on the lifecycle topics
PublishedBy(r) == SubSeq(r.w.lifecycle, Len(lifecycle) + 1, Len(r.w.lifecycle))

\* C37: the status-changed event emitted on a successful redemption carries
\* oldStatus equal to the status the user had immediately before the
\* redemption, and newStatus ACTIVE.
C37_StatusEventCarriesOldStatus ==
    \A t \in Plaintexts, p \in Passwords, salt \in Salts :
        \A r \in {SetInitialPassword(World, t, p, salt, {}),
                  ResetPassword(World, t, p, salt, {})} :
            r.ok =>
                \A i \in DOMAIN PublishedBy(r) :
                    LET event == PublishedBy(r)[i] IN
                    event.kind = "UserStatusChanged" =>
                        /\ event.old_status = users[event.user_id].status
                        /\ event.new_status = "ACTIVE"

----------------------------------------------------------------------------
(* Changes of roles and the decisions made on them (SpecMonotone) *)

\* UPDATE roles SET name, description, permissions WHERE id = $1 RETURNING *:
\* no row is an error of the :one query, and UNIQUE(tenant_id, name) holds
UpdateRoleOk(w, rid, name) ==
    /\ rid \in DOMAIN w.roles
    /\ ~\E r \in DOMAIN w.roles \ {rid} :
          /\ w.roles[r].tenant_id = w.roles[rid].tenant_id
          /\ w.roles[r].name = name

UpdateRole(w, rid, name, permissions) ==
    [w EXCEPT !.roles[rid] = [@ EXCEPT !.name = name, !.permissions = permissions]]

\* UserService.UpdateRole
UserServiceUpdateRole(w, roleID, name, permissions, fail) ==
    IF ~ValidRoleUUID(roleID) THEN Fail(w, "invalid role ID")
    ELSE IF "UpdateRole" \in fail \/ ~UpdateRoleOk(w, roleID, name)
    THEN Fail(w, "failed to update role")
    ELSE Ok(UpdateRole(w, roleID, name, permissions))

\* the permission strings of the requests
PermissionStrings == UNION PermissionInputs

UpdateRoleRpc(fails) ==
    \E r \in RoleIDs, n \in RoleNames, fail \in fails,
       ps \in {{"users:read"}, {"*:write"}, {"users:read", "*:write"}, {}} :
        Rpc("UpdateRole", UserServiceUpdateRole(World, r, n, ps, fail), {})

\* roles are created, rewritten and assigned while decisions are requested;
\* the broker is unreachable
NextMonotone ==
    \/ CreateRoleIn(Tenants, {{"users:read"}, {"*:write"}}, {{}})
    \/ UpdateRoleRpc(FailSets({"UpdateRole"}))
    \/ AssignRoleIn(Tenants, {PublishPoints})
    \/ CheckAccessRpc

SpecMonotone == Init /\ [][NextMonotone]_vars

\* the engines under which the local evaluation decides
LocalEngines == {NoEngine, "error"}

\* C38: local permission evaluation is monotone: adding a permission string
\* to a role, or assigning an additional role to a user, never changes a
\* CheckAccess result for that user from allow to deny.
C38_LocalEvaluationMonotone ==
    \A tok \in ValidSessions, a \in Actions, res \in Resources, opa \in LocalEngines :
        CheckAccess(World, tok, a, res, opa, {}).allowed =>
            /\ \A rid \in DOMAIN roles, p \in PermissionStrings :
                  LET r == UserServiceUpdateRole(World, rid, roles[rid].name,
                                                 roles[rid].permissions \cup {p}, {})
                  IN r.ok /\ CheckAccess(r.w, tok, a, res, opa, {}).allowed
            /\ \A rid \in RoleIDs, t \in Tenants \cup {OtherTenant},
                  fail \in FailSets({"AssignRoleToUser", "PublishRoleAssigned"}) :
                  LET r == UserServiceAssignRoleToUser(World, tok[1].user_id, t, rid, fail)
                  IN CheckAccess(r.w, tok, a, res, opa, {}).allowed

\* a role has just been rewritten; a user holds one role and is allowed to
\* read users but not to write them, a second role that grants the writing
\* can still be assigned, and a permission can still be added to the first
C38_Witness ==
    /\ last = [op |-> "UpdateRole", ok |-> TRUE]
    /\ \E tok \in ValidSessions :
          LET u == tok[1].user_id IN
          /\ u \in DOMAIN users
          /\ Cardinality(ListUserRoles(World, u)) = 1
          /\ CheckAccess(World, tok, "read", "users", NoEngine, {}).allowed
          /\ ~CheckAccess(World, tok, "write", "users", NoEngine, {}).allowed
          /\ \E rid \in DOMAIN roles \ ListUserRoles(World, u) :
                LET r == UserServiceAssignRoleToUser(World, u, "t1", rid, {}) IN
                /\ r.ok
                /\ Cardinality(ListUserRoles(r.w, u)) = 2
                /\ CheckAccess(r.w, tok, "write", "users", NoEngine, {}).allowed
          /\ \E rid \in ListUserRoles(World, u) :
                UserServiceUpdateRole(World, rid, roles[rid].name,
                                      roles[rid].permissions \cup {"roles:read"}, {}).w
                    # World

====
